---- MODULE Spec2Model ----
(***************************************************************************)
(* A model of the 2D N-body asteroid-deflection toy:                       *)
(*   physics.py / main.py        the modular interactive variant           *)
(*   AsteroidDeflectionGame1.py  the standalone interactive variant        *)
(*   new.py                      the RK4 Monte Carlo collision estimator   *)
(*                                                                         *)
(* Numbers.  The programs compute in IEEE doubles; the model computes in   *)
(* integers on a coarse grid.  A float 2-vector is a record [x, y, nan]:   *)
(* nan is set when numpy would have produced nan (0/0, or any operation on *)
(* a nan).  Division truncates towards zero, np.linalg.norm is the integer *)
(* square root, and an angle is counted in quarter turns, so that cos and  *)
(* sin are exact.  Masses, radii and times are scaled to small integers;   *)
(* the structure of every computation (order of updates, guards, window    *)
(* tests, loop exits) is that of the source.                               *)
(***************************************************************************)
EXTENDS Integers, Sequences, FiniteSets, TLC

(***************************************************************************)
(* Float vectors and scalars                                               *)
(***************************************************************************)
Vec(x, y) == [x |-> x, y |-> y, nan |-> FALSE]

NaN == [x |-> 0, y |-> 0, nan |-> TRUE]

\* A scalar nan, for norms, radii and angles only: these are never negative,
\* so -1 is free.
NaNS == 0 - 1

Zero2 == Vec(0, 0)

\* The arithmetic below is written over operands bound in a one-element set
\* ({... : x \in {a}}), so that each operand is evaluated once however often
\* the result uses it; the value is that of the expression on a directly.
Abs(a) == IF a < 0 THEN -a ELSE a

\* Float division, truncated towards zero (sign-symmetric like the float one).
Quot(a, b) ==
    CHOOSE r \in {IF (x < 0) = (y < 0) THEN Abs(x) \div Abs(y) ELSE -(Abs(x) \div Abs(y)) :
                      x \in {a}, y \in {b}} : TRUE

VAdd(a, b) ==
    CHOOSE r \in {IF x.nan \/ y.nan THEN NaN ELSE Vec(x.x + y.x, x.y + y.y) :
                      x \in {a}, y \in {b}} : TRUE

VSub(a, b) ==
    CHOOSE r \in {IF x.nan \/ y.nan THEN NaN ELSE Vec(x.x - y.x, x.y - y.y) :
                      x \in {a}, y \in {b}} : TRUE

\* scalar * array, for a scalar that is never nan (a mass, a thrust, dt).
VScale(k, a) ==
    CHOOSE r \in {IF x.nan THEN NaN ELSE Vec(c * x.x, c * x.y) : c \in {k}, x \in {a}} : TRUE

\* array / scalar.  A zero divisor only ever meets a zero array in the source
\* (r / |r|^3 with r = 0, vel / |vel| with vel = 0): numpy yields nan.
VDivS(a, d) ==
    CHOOSE r \in {IF x.nan \/ y = NaNS \/ y = 0 THEN NaN
                                              ELSE Vec(Quot(x.x, y), Quot(x.y, y)) :
                      x \in {a}, y \in {d}} : TRUE

\* The integer square root, by bisection: lo*lo <= n < hi*hi throughout.
RECURSIVE IsqrtIn(_, _, _)
IsqrtIn(n, lo, hi) ==
    IF hi - lo <= 1 THEN lo
    ELSE CHOOSE r \in {IF mid * mid <= n THEN IsqrtIn(n, mid, hi) ELSE IsqrtIn(n, lo, mid) :
                           mid \in {(lo + hi) \div 2}} : TRUE

\* (46340 is the largest integer whose square is a 32-bit integer.)
Isqrt(n) ==
    CHOOSE r \in {IsqrtIn(m, 0, IF m < 46340 THEN m + 1 ELSE 46340) : m \in {n}} : TRUE

\* np.linalg.norm
Norm(a) ==
    CHOOSE r \in {IF x.nan THEN NaNS ELSE Isqrt(x.x * x.x + x.y * x.y) : x \in {a}} : TRUE

\* array / d**3, as (array / d) / d**2: the same truncated quotient, with every
\* intermediate value in range.
DivCube(a, d) ==
    CHOOSE r \in {VDivS(VDivS(x, y), IF y = NaNS THEN NaNS ELSE y * y) :
                      x \in {a}, y \in {d}} : TRUE

\* cos and sin of k quarter turns.
Cos4(k) == CASE k % 4 = 0 -> 1 [] k % 4 = 1 -> 0 [] k % 4 = 2 -> -1 [] OTHER -> 0

Sin4(k) == CASE k % 4 = 0 -> 0 [] k % 4 = 1 -> 1 [] k % 4 = 2 -> 0 [] OTHER -> -1

\* An optional argument: <<>> is None, <<v>> is the value v.
None == <<>>

Some(v) == <<v>>

IsNone(o) == o = <<>>

(***************************************************************************)
(* physics.py                                                              *)
(***************************************************************************)
\* Gravitational constant, in units where G = 1.
G == 1

Planet(mass, orbit_radius, orbital_velocity, name) ==
    [mass |-> mass, orbit_radius |-> orbit_radius,
     orbital_velocity |-> orbital_velocity, name |-> name]

Asteroid(pos, vel, mass) ==
    [pos |-> pos, vel |-> vel, mass |-> mass, trail |-> <<>>]

\* (orbital_velocity / orbit_radius) * t, in quarter turns; -1 when it is nan
\* (a nan element, or a division by a zero numpy radius).
OrbitAngle(p, t) ==
    IF p.orbit_radius = NaNS \/ p.orbital_velocity = NaNS \/ p.orbit_radius = 0
    THEN NaNS
    ELSE (p.orbital_velocity * t) \div p.orbit_radius

get_position(p, t) ==
    IF p.name = "Sun" THEN Zero2
    ELSE LET angle == OrbitAngle(p, t)
         IN IF angle = NaNS THEN NaN
            ELSE Vec(p.orbit_radius * Cos4(angle), p.orbit_radius * Sin4(angle))

get_velocity_vector(p, t) ==
    IF p.name = "Sun" THEN Zero2
    ELSE LET angle == OrbitAngle(p, t)
         IN IF angle = NaNS THEN NaN
            ELSE Vec(Quot(-(p.orbit_radius * Sin4(angle) * p.orbital_velocity),
                          p.orbit_radius),
                     Quot(p.orbit_radius * Cos4(angle) * p.orbital_velocity,
                          p.orbit_radius))

\* all_bodies = planets + asteroids: body k is planet k, or asteroid k - Len(P).
NBodies(P, A) == Len(P) + Len(A)

\* hasattr(body, "pos"): a free body is read through pos, a planet through
\* get_position(t).
BodyPos(P, A, k, t) ==
    IF k > Len(P) THEN A[k - Len(P)].pos ELSE get_position(P[k], t)

BodyMass(P, A, k) == IF k > Len(P) THEN A[k - Len(P)].mass ELSE P[k].mass

\* -G * body.mass * r / dist**3
GravTerm(mass, r) == DivCube(VScale(-(G * mass), r), Norm(r))

\* A variant without the zero-distance test.
DistIsZero_never(r) == FALSE

\* dist == 0 (false for a nan distance)
DistIsZero(r) == Norm(r) = 0

\* The loop of Planet.get_acceleration over all_bodies[1..k]: the sum so far
\* and (for the record) which bodies added a term to it.
RECURSIVE PlanetGravLoop(_, _, _, _, _)
PlanetGravLoop(P, A, self, t, k) ==
    IF k = 0 THEN [acc |-> Zero2, terms |-> {}]
    ELSE LET sofar == PlanetGravLoop(P, A, self, t, k - 1)
             my_pos == get_position(P[self], t)
             r == VSub(my_pos, BodyPos(P, A, k, t))
         IN IF k = self THEN sofar
            ELSE IF DistIsZero(r) THEN sofar
            ELSE [acc |-> VAdd(sofar.acc, GravTerm(BodyMass(P, A, k), r)),
                  terms |-> sofar.terms \cup {k}]

\* Planet.get_acceleration(all_bodies, t); self is the planet's index.
Planet_get_acceleration(P, A, self, t) ==
    LET g == PlanetGravLoop(P, A, self, t, NBodies(P, A))
    IN [acc |-> g.acc, terms |-> g.terms, thrust |-> FALSE]

\* A variant without the early return for the Sun.
Planet_update_nosun(P, A, self, dt, t) ==
    LET p == P[self]
        accel == Planet_get_acceleration(P, A, self, t).acc
        v == VAdd(get_velocity_vector(p, t), VScale(dt, accel))
        pos == VAdd(get_position(p, t), VScale(dt, v))
    IN [p EXCEPT !.orbit_radius = Norm(pos), !.orbital_velocity = Norm(v)]

\* Planet.update(dt, t, all_bodies): the planet after the call.
Planet_update(P, A, self, dt, t) ==
    LET p == P[self]
        accel == Planet_get_acceleration(P, A, self, t).acc
        v == VAdd(get_velocity_vector(p, t), VScale(dt, accel))
        pos == VAdd(get_position(p, t), VScale(dt, v))
    IN IF p.name = "Sun" THEN p
       ELSE [p EXCEPT !.orbit_radius = Norm(pos), !.orbital_velocity = Norm(v)]

\* The loop of Asteroid.get_acceleration; self indexes all_bodies.
RECURSIVE AsteroidGravLoop(_, _, _, _, _)
AsteroidGravLoop(P, A, self, t, k) ==
    IF k = 0 THEN [acc |-> Zero2, terms |-> {}]
    ELSE LET sofar == AsteroidGravLoop(P, A, self, t, k - 1)
             my_pos == A[self - Len(P)].pos
             r == VSub(my_pos, BodyPos(P, A, k, t))
         IN IF k = self THEN sofar
            ELSE IF DistIsZero(r) THEN sofar
            ELSE [acc |-> VAdd(sofar.acc, GravTerm(BodyMass(P, A, k), r)),
                  terms |-> sofar.terms \cup {k}]

\* A variant with the window closed at its end.
InLaserWindow_closed(t, laser_start_time, laser_duration) ==
    laser_start_time <= t /\ t <= laser_start_time + laser_duration

\* laser_start_time <= t < laser_start_time + laser_duration
InLaserWindow(t, laser_start_time, laser_duration) ==
    laser_start_time <= t /\ t < laser_start_time + laser_duration

\* np.linalg.norm(self.vel) > 0 (false for nan)
NormPositive(v) == Norm(v) > 0

\* laser_thrust * (-vel / |vel|)
ThrustTerm(laser_thrust, vel) == VDivS(VScale(-laser_thrust, vel), Norm(vel))

\* Asteroid.get_acceleration(all_bodies, t, laser_thrust, laser_start_time,
\* laser_duration); the three laser arguments are optional.
Asteroid_get_acceleration(P, A, self, t, laser_thrust, laser_start_time, laser_duration) ==
    LET g == AsteroidGravLoop(P, A, self, t, NBodies(P, A))
        me == A[self - Len(P)]
        fire == /\ ~IsNone(laser_start_time)
                /\ ~IsNone(laser_duration)
                /\ ~IsNone(laser_thrust)
                /\ InLaserWindow(t, laser_start_time[1], laser_duration[1])
                /\ NormPositive(me.vel)
    IN IF fire
       THEN [acc |-> VAdd(g.acc, ThrustTerm(laser_thrust[1], me.vel)),
             terms |-> g.terms, thrust |-> TRUE]
       ELSE [acc |-> g.acc, terms |-> g.terms, thrust |-> FALSE]

\* A variant that advances the position with the velocity held before the step.
Asteroid_update_oldvel(P, A, self, dt, t, laser_thrust, laser_start_time, laser_duration) ==
    LET me == A[self - Len(P)]
        accel == Asteroid_get_acceleration(P, A, self, t, laser_thrust,
                                           laser_start_time, laser_duration).acc
        vel == VAdd(me.vel, VScale(dt, accel))
        pos == VAdd(me.pos, VScale(dt, me.vel))
    IN [me EXCEPT !.vel = vel, !.pos = pos, !.trail = Append(me.trail, pos)]

\* Asteroid.update(dt, t, all_bodies, laser...): the asteroid after the call.
Asteroid_update(P, A, self, dt, t, laser_thrust, laser_start_time, laser_duration) ==
    LET me == A[self - Len(P)]
        accel == Asteroid_get_acceleration(P, A, self, t, laser_thrust,
                                           laser_start_time, laser_duration).acc
        vel == VAdd(me.vel, VScale(dt, accel))
        pos == VAdd(me.pos, VScale(dt, vel))
    IN [me EXCEPT !.vel = vel, !.pos = pos, !.trail = Append(me.trail, pos)]

(***************************************************************************)
(* AsteroidDeflectionGame1.py: the physics functions.  cfg holds the       *)
(* module's global parameters under their source names.                    *)
(***************************************************************************)
\* np.sqrt(G * M_SUN / orbit_radius)
OrbitalVelocity(m_sun, orbit_radius) == Isqrt(Quot(G * m_sun, orbit_radius))

\* get_planet_state(time_days): <<pos_earth, pos_jupiter>>
get_planet_state(cfg, time_days) ==
    LET angle_earth ==
            (cfg.EARTH_ORBITAL_VELOCITY * time_days) \div cfg.EARTH_ORBIT_RADIUS
        angle_jupiter ==
            (cfg.JUPITER_ORBITAL_VELOCITY * time_days) \div cfg.JUPITER_ORBIT_RADIUS
    IN << Vec(cfg.EARTH_ORBIT_RADIUS * Cos4(angle_earth),
              cfg.EARTH_ORBIT_RADIUS * Sin4(angle_earth)),
          Vec(cfg.JUPITER_ORBIT_RADIUS * Cos4(angle_jupiter),
              cfg.JUPITER_ORBIT_RADIUS * Sin4(angle_jupiter)) >>

\* The gravitational part of asteroid_accel: three unguarded terms.
GameGravity(cfg, pos, t) ==
    LET ps == get_planet_state(cfg, t)
        r_sun == VSub(pos, Zero2)
        r_earth == VSub(pos, ps[1])
        r_jupiter == VSub(pos, ps[2])
        accel_sun == DivCube(VScale(-(G * cfg.M_SUN), r_sun), Norm(r_sun))
        accel_earth == DivCube(VScale(-(G * cfg.M_EARTH), r_earth), Norm(r_earth))
        accel_jupiter ==
            DivCube(VScale(-(G * cfg.M_JUPITER), r_jupiter), Norm(r_jupiter))
    IN VAdd(VAdd(accel_sun, accel_earth), accel_jupiter)

\* asteroid_accel(pos, vel, t)
asteroid_accel(cfg, pos, vel, t) ==
    LET total_accel == GameGravity(cfg, pos, t)
    IN IF InLaserWindow(t, cfg.laser_start_time, cfg.laser_duration)
       THEN [acc |-> VAdd(total_accel, ThrustTerm(cfg.laser_thrust, vel)),
             thrust |-> TRUE]
       ELSE [acc |-> total_accel, thrust |-> FALSE]

\* One pass of the body of the physics-update loop for asteroids[i]:
\* the asteroid state (pos, vel) after it.
GameStep(cfg, a, t) ==
    LET accel == asteroid_accel(cfg, a.pos, a.vel, t).acc
        vel == VAdd(a.vel, VScale(cfg.dt, accel))
        pos == VAdd(a.pos, VScale(cfg.dt, vel))
    IN [pos |-> pos, vel |-> vel]

(***************************************************************************)
(* Program constants, scaled to the grid (length unit 0.25 AU; masses in   *)
(* units where G = 1 and the asteroid mass is 1; dt counted in tenths of a *)
(* day; the laser window scaled so that it opens within the first frames). *)
(***************************************************************************)
M_SUN == 16

M_EARTH == 2

M_JUPITER == 4

ASTEROID_MASS == 1

EARTH_ORBIT_RADIUS == 4

JUPITER_ORBIT_RADIUS == 20

ASTEROID_BASE_POS == Vec(-4, 1)

ASTEROID_BASE_VEL == Vec(-1, -3)

ASTEROID_UNC_POS == 1

ASTEROID_UNC_VEL == 1

\* NUM_ASTEROIDS = 7 in the source; the slider and the U/J keys keep it in
\* 1..2000.  Scaled: it starts at NUM_ASTEROIDS and stays in 1..NUM_MAX.
NUM_ASTEROIDS == 2

NUM_MAX == 2

laser_thrust == 5

laser_duration == 5

laser_start_time == 5

\* dt = 0.5 days per frame; the W key keeps it at or above 0.1.
dt == 5

DT_MIN == 1

\* The standalone module's globals after import (lines 83-130).
GameGlobals ==
    [laser_thrust |-> laser_thrust, laser_duration |-> laser_duration,
     laser_start_time |-> laser_start_time,
     ASTEROID_BASE_POS |-> ASTEROID_BASE_POS, ASTEROID_BASE_VEL |-> ASTEROID_BASE_VEL,
     ASTEROID_UNC_POS |-> ASTEROID_UNC_POS, ASTEROID_UNC_VEL |-> ASTEROID_UNC_VEL,
     NUM_ASTEROIDS |-> NUM_ASTEROIDS,
     M_SUN |-> M_SUN, M_EARTH |-> M_EARTH, M_JUPITER |-> M_JUPITER,
     EARTH_ORBIT_RADIUS |-> EARTH_ORBIT_RADIUS,
     EARTH_ORBITAL_VELOCITY |-> OrbitalVelocity(M_SUN, EARTH_ORBIT_RADIUS),
     JUPITER_ORBIT_RADIUS |-> JUPITER_ORBIT_RADIUS,
     JUPITER_ORBITAL_VELOCITY |-> OrbitalVelocity(M_SUN, JUPITER_ORBIT_RADIUS),
     dt |-> dt, show_trail |-> TRUE]

VARIABLES
    \* --- the function harness: physics objects and one recorded call ---
    f_P,        \* planets: <<sun, earth, jupiter>>
    f_A,        \* asteroids
    f_t,        \* the time argument of the calls
    f_dt,       \* the dt argument of the calls
    f_laser,    \* [thrust, start, duration]: the optional laser arguments
    f_out,      \* the last call: its name, target, the objects before it, its result
    f_calls     \* number of update calls made

VARIABLES
    \* --- AsteroidDeflectionGame1.py: main()'s state ---
    g,            \* the module's global parameters (laser_thrust, ..., dt, show_trail)
    g_t,          \* t
    g_paused,     \* paused
    g_asteroids,  \* asteroids: a list of (pos, vel) states
    trajectories, \* trajectories: one list of positions per asteroid
    g_sliders,    \* the values of the nine sliders
    g_frames,     \* frames run (bounds the exploration)
    g_events,     \* UI events handled (bounds the exploration)
    g_gen         \* history: [k, t0, sum] unpaused frames run, the time and the
                  \* sum of the step sizes since generate_asteroids last ran

VARIABLES
    \* --- new.py: the Monte Carlo script's state ---
    collision_count,
    collision_prob,   \* <<collision_count, n_trials>> once computed, <<>> before
    c_pc,             \* "trial": at the head of the outer loop; "step": at the head
                      \* of the inner loop; "done": after the script
    c_trial,          \* number of trials started
    c_step,           \* number of inner-loop iterations run in this trial
    c_pos,            \* pos
    c_vel,            \* vel
    c_log,            \* history: per trial, its start and what each step found
    pos_uncertainty,  \* pos_uncertainty, the scale of the position perturbation
    c_env,            \* the module's other globals: the nominal state, the bodies'
                      \* masses and positions, dt and t_end
    c_rk4             \* history: the last call of rk4_step (<<>> before the first)

VARIABLES
    \* --- main.py: main()'s state ---
    m_g,          \* the module's global parameters
    m_t,          \* t
    m_paused,     \* paused
    m_planets,    \* planets: <<sun, earth, jupiter>>
    m_asteroids,  \* asteroids: a list of Asteroid objects
    m_sliders,    \* the values of the fourteen sliders
    m_frames,     \* frames run (bounds the exploration)
    m_events,     \* UI events handled (bounds the exploration)
    m_tick        \* history: the physics update of the frame just run (<<>> when
                  \* it had none, and once the next frame's events are handled):
                  \* the bodies it started from and the accelerations it used

fvars == <<f_P, f_A, f_t, f_dt, f_laser, f_out, f_calls>>

gvars == <<g, g_t, g_paused, g_asteroids, trajectories, g_sliders,
           g_frames, g_events, g_gen>>

cvars == <<collision_count, collision_prob, c_pc, c_trial, c_step, c_pos, c_vel, c_log,
           pos_uncertainty, c_env, c_rk4>>

mvars == <<m_g, m_t, m_paused, m_planets, m_asteroids, m_sliders, m_frames, m_events,
           m_tick>>

vars == <<fvars, gvars, cvars, mvars>>

\* The parts of the state that belong to the other programs stay as they are.
FnIdle ==
    /\ f_P = <<>> /\ f_A = <<>> /\ f_t = 0 /\ f_dt = 0
    /\ f_laser = [thrust |-> None, start |-> None, duration |-> None]
    /\ f_out = <<>> /\ f_calls = 0

GameIdle ==
    /\ g = GameGlobals /\ g_t = 0 /\ g_paused = FALSE
    /\ g_asteroids = <<>> /\ trajectories = <<>> /\ g_sliders = <<>>
    /\ g_frames = 0 /\ g_events = 0 /\ g_gen = <<>>

ModularIdle ==
    /\ m_g = <<>> /\ m_t = 0 /\ m_paused = FALSE
    /\ m_planets = <<>> /\ m_asteroids = <<>> /\ m_sliders = <<>>
    /\ m_frames = 0 /\ m_events = 0 /\ m_tick = <<>>

McIdle ==
    /\ collision_count = 0 /\ collision_prob = <<>> /\ c_pc = "done"
    /\ c_trial = 0 /\ c_step = 0 /\ c_pos = Zero2 /\ c_vel = Zero2 /\ c_log = <<>>
    /\ pos_uncertainty = 0 /\ c_env = <<>> /\ c_rk4 = <<>>

(***************************************************************************)
(* The function harness: the physics functions applied to drawn inputs.    *)
(***************************************************************************)
\* Bounds of the harness.
MaxCalls == 2

MaxTime == 2

Times == 0 .. MaxTime

NoCall == [op |-> "none", self |-> 0, dt |-> 0, P |-> <<>>, A |-> <<>>,
           acc |-> Zero2, terms |-> {}, thrust |-> FALSE]

FnSuns == {Planet(M_SUN, 0, 0, "Sun"), Planet(M_SUN, 3, 2, "Sun")}

FnEarths == {Planet(M_EARTH, 2, 2, "Earth")}

FnJupiters == {Planet(M_JUPITER, 6, 1, "Jupiter")}

\* Positions that coincide with the Sun, with Earth (radius 2, t = 0), with the
\* other asteroid, and with nothing.
FnPos1 == {Vec(0, 0), Vec(2, 0), Vec(-4, 1), Vec(1, 1)}

FnVel1 == {Vec(0, 0), Vec(-1, -3)}

FnPos2 == {Vec(-4, 1), Vec(3, 3)}

FnLasers ==
    {[thrust |-> None, start |-> None, duration |-> None],
     [thrust |-> Some(5), start |-> Some(1), duration |-> Some(1)]}

FnInit ==
    /\ f_P \in {<<s, e, j>> : s \in FnSuns, e \in FnEarths, j \in FnJupiters}
    /\ f_A \in {<<Asteroid(p1, v1, ASTEROID_MASS), Asteroid(p2, Vec(0, 1), ASTEROID_MASS)>> :
                   p1 \in FnPos1, v1 \in FnVel1, p2 \in FnPos2}
    /\ f_t \in Times
    /\ f_dt \in {1, 2}
    /\ f_laser \in FnLasers
    /\ f_out = NoCall
    /\ f_calls = 0
    /\ GameIdle
    /\ McIdle
    /\ ModularIdle

Call(op, self, d, res) ==
    [op |-> op, self |-> self, dt |-> d, P |-> f_P, A |-> f_A,
     acc |-> res.acc, terms |-> res.terms, thrust |-> res.thrust]

\* planet.get_acceleration(all_bodies, t)
CallPlanetGetAcceleration ==
    \E self \in 1 .. Len(f_P) :
        /\ f_calls = 0
        /\ f_out' = Call("Planet.get_acceleration", self, 0,
                         Planet_get_acceleration(f_P, f_A, self, f_t))
        /\ UNCHANGED <<f_P, f_A, f_t, f_dt, f_laser, f_calls, gvars, cvars, mvars>>

\* asteroid.get_acceleration(all_bodies, t, laser_thrust, laser_start_time,
\* laser_duration)
CallAsteroidGetAcceleration ==
    \E self \in Len(f_P) + 1 .. NBodies(f_P, f_A) :
        /\ f_calls = 0
        /\ f_out' = Call("Asteroid.get_acceleration", self, 0,
                         Asteroid_get_acceleration(f_P, f_A, self, f_t, f_laser.thrust,
                                                   f_laser.start, f_laser.duration))
        /\ UNCHANGED <<f_P, f_A, f_t, f_dt, f_laser, f_calls, gvars, cvars, mvars>>

\* The standalone module's globals with the harness's laser and Earth settings.
FnGlobals ==
    [GameGlobals EXCEPT
        !.laser_thrust = f_laser.thrust[1],
        !.laser_start_time = f_laser.start[1],
        !.laser_duration = f_laser.duration[1],
        !.EARTH_ORBIT_RADIUS = f_P[2].orbit_radius,
        !.EARTH_ORBITAL_VELOCITY = f_P[2].orbital_velocity]

\* asteroid_accel(pos, vel, t) of the standalone game, on asteroid self
CallAsteroidAccel ==
    \E self \in Len(f_P) + 1 .. NBodies(f_P, f_A) :
        /\ ~IsNone(f_laser.thrust)
        /\ f_calls = 0
        /\ LET a == f_A[self - Len(f_P)]
               res == asteroid_accel(FnGlobals, a.pos, a.vel, f_t)
           IN f_out' = Call("asteroid_accel", self, 0,
                            [acc |-> res.acc, terms |-> {}, thrust |-> res.thrust])
        /\ UNCHANGED <<f_P, f_A, f_t, f_dt, f_laser, f_calls, gvars, cvars, mvars>>

\* planet.update(dt, t, all_bodies)
CallPlanetUpdate ==
    \E self \in 1 .. Len(f_P) :
        /\ f_calls < MaxCalls
        /\ f_P' = [f_P EXCEPT ![self] = Planet_update(f_P, f_A, self, f_dt, f_t)]
        /\ f_out' = Call("Planet.update", self, f_dt,
                         Planet_get_acceleration(f_P, f_A, self, f_t))
        /\ f_calls' = f_calls + 1
        /\ UNCHANGED <<f_A, f_t, f_dt, f_laser, gvars, cvars, mvars>>

\* asteroid.update(dt, t, all_bodies, laser_thrust, laser_start_time,
\* laser_duration)
CallAsteroidUpdate ==
    \E self \in Len(f_P) + 1 .. NBodies(f_P, f_A) :
        /\ f_calls < MaxCalls
        /\ f_A' = [f_A EXCEPT ![self - Len(f_P)] =
                       Asteroid_update(f_P, f_A, self, f_dt, f_t, f_laser.thrust,
                                       f_laser.start, f_laser.duration)]
        /\ f_out' = Call("Asteroid.update", self, f_dt,
                         Asteroid_get_acceleration(f_P, f_A, self, f_t, f_laser.thrust,
                                                   f_laser.start, f_laser.duration))
        /\ f_calls' = f_calls + 1
        /\ UNCHANGED <<f_P, f_t, f_dt, f_laser, gvars, cvars, mvars>>

\* One pass of the standalone game's update loop body on asteroid self.
CallGameStep ==
    \E self \in Len(f_P) + 1 .. NBodies(f_P, f_A) :
        /\ ~IsNone(f_laser.thrust)
        /\ f_calls = 0
        /\ LET a == f_A[self - Len(f_P)]
               cfg == [FnGlobals EXCEPT !.dt = f_dt]
               b == GameStep(cfg, a, f_t)
               res == asteroid_accel(cfg, a.pos, a.vel, f_t)
           IN /\ f_A' = [f_A EXCEPT ![self - Len(f_P)] =
                             [a EXCEPT !.pos = b.pos, !.vel = b.vel]]
              /\ f_out' = Call("GameStep", self, f_dt,
                               [acc |-> res.acc, terms |-> {}, thrust |-> res.thrust])
        /\ f_calls' = MaxCalls
        /\ UNCHANGED <<f_P, f_t, f_dt, f_laser, gvars, cvars, mvars>>

FnNext ==
    \/ CallPlanetGetAcceleration
    \/ CallAsteroidGetAcceleration
    \/ CallAsteroidAccel
    \/ CallPlanetUpdate
    \/ CallAsteroidUpdate
    \/ CallGameStep

SpecFn == FnInit /\ [][FnNext]_vars

(***************************************************************************)
(* AsteroidDeflectionGame1.py: main().  One action per kind of event the   *)
(* loop handles, and one for the physics update of a frame.  The QUIT      *)
(* event and the window buttons only end or restyle the window and are     *)
(* left out; a slider drag is the MOUSEMOTION event of a slider being      *)
(* dragged.  Sliders are numbered from 1 (sliders[i-1] in the source).     *)
(***************************************************************************)
\* Bounds of the exploration.
MaxFrames == 2

MaxEvents == 2

\* The draws of np.random.uniform(-1, 1, 2) explored, for the position and the
\* velocity of one asteroid (each is scaled by the uncertainty).
Samples == {[p |-> Vec(0, 0), v |-> Vec(0, 0)], [p |-> Vec(-1, 0), v |-> Vec(0, -1)]}

\* generate_asteroids(): every list it can return under the globals c.
generate_asteroids(c) ==
    {[i \in 1 .. c.NUM_ASTEROIDS |->
        [pos |-> VAdd(c.ASTEROID_BASE_POS, VScale(c.ASTEROID_UNC_POS, d[i].p)),
         vel |-> VAdd(c.ASTEROID_BASE_VEL, VScale(c.ASTEROID_UNC_VEL, d[i].v))]] :
     d \in [1 .. c.NUM_ASTEROIDS -> Samples]}

\* trajectories = [[] for _ in range(NUM_ASTEROIDS)]
EmptyTrajectories(c) == [i \in 1 .. c.NUM_ASTEROIDS |-> <<>>]

\* The sliders' (minv, maxv), scaled like the parameters they set.
GameSliderRange ==
    << <<1, 20>>,        \* Laser Thrust    1e-9 .. 1e-7
       <<1, 25>>,        \* Laser Duration  1 .. 100
       <<1, 6>>,         \* Ast Unc Pos     0.01 .. 0.2
       <<1, 3>>,         \* Ast Unc Vel     0.001 .. 0.01
       <<1, NUM_MAX>>,   \* Num Asteroids   1 .. 2000
       <<2, 8>>,         \* Earth Radius    0.5 .. 2.0
       <<4, 28>>,        \* Jupiter Radius  1.0 .. 7.0
       <<1, 6>>,         \* Earth Mass      1e-6 .. 1e-5
       <<1, 8>> >>       \* Jupiter Mass    1e-4 .. 2e-3

\* The values the sliders are built with.
GameSliderInit ==
    << laser_thrust, laser_duration, ASTEROID_UNC_POS, ASTEROID_UNC_VEL,
       NUM_ASTEROIDS, EARTH_ORBIT_RADIUS, JUPITER_ORBIT_RADIUS, M_EARTH, M_JUPITER >>

\* Slider.handle_event on a MOUSEMOTION while dragging: the value lands in
\* [minv, maxv]; the drags explored go to either end.
SliderTargets(range, i) == {range[i][1], range[i][2]}

\* The globals after the slider_changed block (lines 297-308), v the sliders' values.
GameApplySliders(c, v) ==
    [c EXCEPT
        !.laser_thrust = v[1],
        !.laser_duration = v[2],
        !.ASTEROID_UNC_POS = v[3],
        !.ASTEROID_UNC_VEL = v[4],
        !.NUM_ASTEROIDS = v[5],
        !.EARTH_ORBIT_RADIUS = v[6],
        !.EARTH_ORBITAL_VELOCITY = OrbitalVelocity(c.M_SUN, v[6]),
        !.JUPITER_ORBIT_RADIUS = v[7],
        !.JUPITER_ORBITAL_VELOCITY = OrbitalVelocity(c.M_SUN, v[7]),
        !.M_EARTH = v[8],
        !.M_JUPITER = v[9]]

Max(a, b) == IF a > b THEN a ELSE b

Min(a, b) == IF a < b THEN a ELSE b

\* x * 1.2, x / 1.2, x * 1.05, x / 1.05 on the grid
Times12(x) == Quot(x * 12, 10)

Over12(x) == Quot(x * 10, 12)

Times105(x) == Quot(x * 105, 100)

Over105(x) == Quot(x * 100, 105)

Keys ==
    {"l", "i", "o", "p", "t", "g", "y", "h", "u", "j", "f", "v", "b", "n", "r", "c",
     "x", "q", "e", "z", "s", "d", "a", "w", "SPACE", "TAB", "ESCAPE"}

\* Keys after which asteroids = generate_asteroids() runs, and those after
\* which trajectories is rebuilt as well.
\* A variant in which the keys that change the number of asteroids (u, j) do
\* not regenerate them.
RegenKeys_nonumber == {"t", "g", "y", "h", "f", "v", "b", "n", "r", "c", "x", "ESCAPE"}

RegenKeys == {"t", "g", "y", "h", "u", "j", "f", "v", "b", "n", "r", "c", "x", "ESCAPE"}

TrajectoryResetKeys == {"t", "g", "y", "h", "u", "j", "ESCAPE"}

\* A variant of the W key without the floor: dt = dt / 1.2.
GameKeyGlobals_nofloor(c, key) ==
    CASE key = "a" -> [c EXCEPT !.dt = Times12(@)]
      [] key = "w" -> [c EXCEPT !.dt = Over12(@)]
      [] OTHER -> c

\* The globals after the KEYDOWN block (lines 327-419) for one key.  Every
\* step of the source is one grid unit here.  The keys f and x each match two
\* of the block's tests.
GameKeyGlobals(c, key) ==
    CASE key = "l" -> [c EXCEPT !.laser_thrust = Times12(@)]
      [] key = "i" -> [c EXCEPT !.laser_thrust = Over12(@)]
      [] key = "o" -> [c EXCEPT !.laser_duration = @ + 1]
      [] key = "p" -> [c EXCEPT !.laser_duration = Max(0, @ - 1)]
      [] key = "t" -> [c EXCEPT !.ASTEROID_UNC_POS = @ + 1]
      [] key = "g" -> [c EXCEPT !.ASTEROID_UNC_POS = Max(0, @ - 1)]
      [] key = "y" -> [c EXCEPT !.ASTEROID_UNC_VEL = @ + 1]
      [] key = "h" -> [c EXCEPT !.ASTEROID_UNC_VEL = Max(0, @ - 1)]
      [] key = "u" -> [c EXCEPT !.NUM_ASTEROIDS = Min(NUM_MAX, @ + 1)]
      [] key = "j" -> [c EXCEPT !.NUM_ASTEROIDS = Max(1, @ - 1)]
      [] key = "f" -> [c EXCEPT !.ASTEROID_BASE_VEL.y = @ + 1,
                                !.ASTEROID_BASE_POS.y = @ - 1]
      [] key = "v" -> [c EXCEPT !.ASTEROID_BASE_VEL.y = @ - 1]
      [] key = "b" -> [c EXCEPT !.ASTEROID_BASE_VEL.x = @ - 1]
      [] key = "n" -> [c EXCEPT !.ASTEROID_BASE_VEL.x = @ + 1]
      [] key = "r" -> [c EXCEPT !.ASTEROID_BASE_POS.y = @ + 1]
      [] key = "c" -> [c EXCEPT !.ASTEROID_BASE_POS.x = @ - 1]
      [] key = "x" -> [c EXCEPT !.ASTEROID_BASE_POS.x = @ + 1,
                                !.JUPITER_ORBIT_RADIUS = Max(4, @ - 1),
                                !.JUPITER_ORBITAL_VELOCITY =
                                    OrbitalVelocity(c.M_SUN, Max(4, c.JUPITER_ORBIT_RADIUS - 1))]
      [] key = "q" -> [c EXCEPT !.EARTH_ORBIT_RADIUS = @ + 1,
                                !.EARTH_ORBITAL_VELOCITY =
                                    OrbitalVelocity(c.M_SUN, c.EARTH_ORBIT_RADIUS + 1)]
      [] key = "e" -> [c EXCEPT !.EARTH_ORBIT_RADIUS = Max(2, @ - 1),
                                !.EARTH_ORBITAL_VELOCITY =
                                    OrbitalVelocity(c.M_SUN, Max(2, c.EARTH_ORBIT_RADIUS - 1))]
      [] key = "z" -> [c EXCEPT !.JUPITER_ORBIT_RADIUS = @ + 1,
                                !.JUPITER_ORBITAL_VELOCITY =
                                    OrbitalVelocity(c.M_SUN, c.JUPITER_ORBIT_RADIUS + 1)]
      [] key = "s" -> [c EXCEPT !.M_SUN = Times105(@),
                                !.EARTH_ORBITAL_VELOCITY =
                                    OrbitalVelocity(Times105(c.M_SUN), c.EARTH_ORBIT_RADIUS),
                                !.JUPITER_ORBITAL_VELOCITY =
                                    OrbitalVelocity(Times105(c.M_SUN), c.JUPITER_ORBIT_RADIUS)]
      [] key = "d" -> [c EXCEPT !.M_SUN = Over105(@),
                                !.EARTH_ORBITAL_VELOCITY =
                                    OrbitalVelocity(Over105(c.M_SUN), c.EARTH_ORBIT_RADIUS),
                                !.JUPITER_ORBITAL_VELOCITY =
                                    OrbitalVelocity(Over105(c.M_SUN), c.JUPITER_ORBIT_RADIUS)]
      [] key = "a" -> [c EXCEPT !.dt = Times12(@)]
      [] key = "w" -> [c EXCEPT !.dt = Max(DT_MIN, Over12(@))]
      [] key = "TAB" -> [c EXCEPT !.show_trail = ~@]
      [] OTHER -> c

\* The history kept with an asteroid set: unpaused frames run since it was
\* generated, the time it was generated at, the step sizes summed since.
NewSet(t0) == [k |-> 0, t0 |-> t0, sum |-> 0]

GameInit ==
    /\ g = GameGlobals
    /\ g_t = 0
    /\ g_paused = FALSE
    /\ g_asteroids \in generate_asteroids(GameGlobals)
    /\ trajectories = EmptyTrajectories(GameGlobals)
    /\ g_sliders = GameSliderInit
    /\ g_frames = 0
    /\ g_events = 0
    /\ g_gen = NewSet(0)
    /\ FnIdle
    /\ McIdle
    /\ ModularIdle

\* A MOUSEMOTION event while slider i is dragged (lines 293-310).
GameSliderChange ==
    \E i \in 1 .. Len(g_sliders) :
        \E v \in SliderTargets(GameSliderRange, i) :
            LET values == [g_sliders EXCEPT ![i] = v]
                c == GameApplySliders(g, values)
            IN /\ g_events < MaxEvents
               /\ g_sliders' = values
               /\ g' = c
               /\ g_asteroids' \in generate_asteroids(c)
               /\ trajectories' = EmptyTrajectories(c)
               /\ g_gen' = NewSet(g_t)
               /\ g_events' = g_events + 1
               /\ UNCHANGED <<g_t, g_paused, g_frames, fvars, cvars, mvars>>

\* A KEYDOWN event (lines 327-424) of one of the keys in `keys`, while fewer
\* than `budget` events have been handled.
GameKeyDownOf(keys, budget) ==
    \E key \in keys :
        LET c == GameKeyGlobals(g, key)
            t1 == IF key = "ESCAPE" THEN 0 ELSE g_t
        IN /\ g_events < budget
           /\ g' = c
           /\ g_t' = t1
           /\ g_paused' = IF key = "SPACE" THEN ~g_paused ELSE g_paused
           /\ IF key \in RegenKeys
              THEN g_asteroids' \in generate_asteroids(c) /\ g_gen' = NewSet(t1)
              ELSE UNCHANGED <<g_asteroids, g_gen>>
           /\ trajectories' = IF key \in TrajectoryResetKeys
                              THEN EmptyTrajectories(c)
                              ELSE trajectories
           /\ g_events' = g_events + 1
           /\ UNCHANGED <<g_sliders, g_frames, fvars, cvars, mvars>>

\* A KEYDOWN event of any key.
GameKeyDown == GameKeyDownOf(Keys, MaxEvents)

\* A variant of the frame that runs the physics update whether paused or not.
GameFrame_nopause ==
    /\ g_frames < MaxFrames
    /\ g_frames' = g_frames + 1
    /\ g_asteroids' =
          [i \in 1 .. Len(g_asteroids) |->
              IF i <= g.NUM_ASTEROIDS THEN GameStep(g, g_asteroids[i], g_t)
              ELSE g_asteroids[i]]
    /\ trajectories' =
          [i \in 1 .. Len(trajectories) |->
              IF i <= g.NUM_ASTEROIDS
              THEN Append(trajectories[i], g_asteroids'[i].pos)
              ELSE trajectories[i]]
    /\ g_t' = g_t + g.dt
    /\ g_gen' = [g_gen EXCEPT !.k = @ + 1, !.sum = @ + g.dt]
    /\ UNCHANGED <<g, g_paused, g_sliders, g_events, fvars, cvars, mvars>>

\* The physics update of one frame (lines 425-435).
GameFrame ==
    /\ g_frames < MaxFrames
    /\ g_frames' = g_frames + 1
    /\ IF ~g_paused
       THEN /\ g_asteroids' =
                  [i \in 1 .. Len(g_asteroids) |->
                      IF i <= g.NUM_ASTEROIDS THEN GameStep(g, g_asteroids[i], g_t)
                      ELSE g_asteroids[i]]
            /\ trajectories' =
                  [i \in 1 .. Len(trajectories) |->
                      IF i <= g.NUM_ASTEROIDS
                      THEN Append(trajectories[i], g_asteroids'[i].pos)
                      ELSE trajectories[i]]
            /\ g_t' = g_t + g.dt
            /\ g_gen' = [g_gen EXCEPT !.k = @ + 1, !.sum = @ + g.dt]
       ELSE UNCHANGED <<g_asteroids, trajectories, g_t, g_gen>>
    /\ UNCHANGED <<g, g_paused, g_sliders, g_events, fvars, cvars, mvars>>

GameNext == GameSliderChange \/ GameKeyDown \/ GameFrame

SpecGame == GameInit /\ [][GameNext]_vars

(***************************************************************************)
(* main.py: the modular interactive game.  The bodies are physics.py's     *)
(* Planet and Asteroid objects; a frame handles the pending events and     *)
(* then, unless paused, updates every asteroid and every planet in place   *)
(* and advances t.  Drawing is left out.                                   *)
(***************************************************************************)
\* Bound: the dt slider reaches 10.0 days per frame in the source; drags are
\* explored up to MaxDt grid units (1.0 day), which keeps the positions
\* within the integers' range.
MaxDt == 10

\* The module's globals after import (lines 7-26): the same names and values
\* as the standalone game's.
ModularGlobals == GameGlobals

\* generate_asteroids() (lines 48-58): every list of Asteroid objects it can
\* return under the globals c.
Modular_generate_asteroids(c) ==
    {[i \in 1 .. c.NUM_ASTEROIDS |->
        Asteroid(VAdd(c.ASTEROID_BASE_POS, VScale(c.ASTEROID_UNC_POS, d[i].p)),
                 VAdd(c.ASTEROID_BASE_VEL, VScale(c.ASTEROID_UNC_VEL, d[i].v)),
                 ASTEROID_MASS)] :
     d \in [1 .. c.NUM_ASTEROIDS -> Samples]}

\* planets = [sun, earth, jupiter] (lines 73-85)
ModularPlanets(c) ==
    << Planet(c.M_SUN, 0, 0, "Sun"),
       Planet(c.M_EARTH, c.EARTH_ORBIT_RADIUS, c.EARTH_ORBITAL_VELOCITY, "Earth"),
       Planet(c.M_JUPITER, c.JUPITER_ORBIT_RADIUS, c.JUPITER_ORBITAL_VELOCITY, "Jupiter") >>

\* The fourteen sliders' (minv, maxv): the standalone game's nine, then
ModularSliderRange ==
    GameSliderRange \o
    << <<-8, 8>>,         \* Base Pos X      -2.0 .. 2.0
       <<-8, 8>>,         \* Base Pos Y      -2.0 .. 2.0
       <<-10, 10>>,       \* Base Vel X      -0.05 .. 0.05
       <<-10, 10>>,       \* Base Vel Y      -0.05 .. 0.05
       <<DT_MIN, MaxDt>> >>  \* dt           0.1 .. 10.0

\* The values the sliders are built with.
ModularSliderInit ==
    GameSliderInit \o
    << ASTEROID_BASE_POS.x, ASTEROID_BASE_POS.y,
       ASTEROID_BASE_VEL.x, ASTEROID_BASE_VEL.y, dt >>

\* The globals after the slider_changed block (lines 263-278), v the sliders'
\* values.
ModularApplySliders(c, v) ==
    [GameApplySliders(c, v) EXCEPT
        !.ASTEROID_BASE_POS = Vec(v[10], v[11]),
        !.ASTEROID_BASE_VEL = Vec(v[12], v[13]),
        !.dt = v[14]]

\* earth and jupiter after lines 279-284; the Sun is left alone.
ModularApplyPlanets(P, c) ==
    [P EXCEPT
        ![2] = [@ EXCEPT !.mass = c.M_EARTH,
                         !.orbit_radius = c.EARTH_ORBIT_RADIUS,
                         !.orbital_velocity = c.EARTH_ORBITAL_VELOCITY],
        ![3] = [@ EXCEPT !.mass = c.M_JUPITER,
                         !.orbit_radius = c.JUPITER_ORBIT_RADIUS,
                         !.orbital_velocity = c.JUPITER_ORBITAL_VELOCITY]]

ModularKeys == {"SPACE", "TAB", "ESCAPE"}

\* `for asteroid in asteroids: asteroid.update(...)` (lines 309-312) after its
\* first k updates: the asteroids, and (for the record) the acceleration each
\* update computed.  The objects are updated in place, so update k reads the
\* asteroids as the updates before it left them.
RECURSIVE AsteroidLoop(_, _, _, _, _)
AsteroidLoop(P, A, c, t, k) ==
    IF k = 0 THEN [A |-> A, acc |-> <<>>]
    ELSE CHOOSE next \in
            {[A |-> [prev.A EXCEPT
                        ![k] = Asteroid_update(P, prev.A, Len(P) + k, c.dt, t,
                                               Some(c.laser_thrust),
                                               Some(c.laser_start_time),
                                               Some(c.laser_duration))],
              acc |-> Append(prev.acc,
                             Asteroid_get_acceleration(P, prev.A, Len(P) + k, t,
                                                       Some(c.laser_thrust),
                                                       Some(c.laser_start_time),
                                                       Some(c.laser_duration)).acc)] :
             prev \in {AsteroidLoop(P, A, c, t, k - 1)}} : TRUE

\* `for planet in planets: planet.update(dt, t, all_bodies)` (lines 313-314)
\* after its first k updates, A the asteroids as the loop before left them.
RECURSIVE PlanetLoop(_, _, _, _, _)
PlanetLoop(P, A, c, t, k) ==
    IF k = 0 THEN [P |-> P, acc |-> <<>>]
    ELSE CHOOSE next \in
            {[P |-> [prev.P EXCEPT ![k] = Planet_update(prev.P, A, k, c.dt, t)],
              acc |-> Append(prev.acc, Planet_get_acceleration(prev.P, A, k, t).acc)] :
             prev \in {PlanetLoop(P, A, c, t, k - 1)}} : TRUE

ModularInit ==
    /\ m_g = ModularGlobals
    /\ m_t = 0
    /\ m_paused = FALSE
    /\ m_planets = ModularPlanets(ModularGlobals)
    /\ m_asteroids \in Modular_generate_asteroids(ModularGlobals)
    /\ m_sliders = ModularSliderInit
    /\ m_frames = 0
    /\ m_events = 0
    /\ m_tick = <<>>
    /\ FnIdle
    /\ GameIdle
    /\ McIdle

\* A MOUSEMOTION event while one of the sliders in `which` is dragged (lines
\* 257-285), while fewer than `budget` events have been handled.
ModularSliderChangeOf(which, budget) ==
    \E i \in which :
        \E v \in SliderTargets(ModularSliderRange, i) :
            LET values == [m_sliders EXCEPT ![i] = v]
                c == ModularApplySliders(m_g, values)
            IN /\ m_events < budget
               /\ m_sliders' = values
               /\ m_g' = c
               /\ m_planets' = ModularApplyPlanets(m_planets, c)
               /\ m_asteroids' \in Modular_generate_asteroids(c)
               /\ m_events' = m_events + 1
               /\ m_tick' = <<>>
               /\ UNCHANGED <<m_t, m_paused, m_frames, fvars, gvars, cvars>>

\* A drag of any slider.
ModularSliderChange == ModularSliderChangeOf(1 .. Len(m_sliders), MaxEvents)

\* A KEYDOWN event (lines 299-306).
ModularKeyDown ==
    \E key \in ModularKeys :
        /\ m_events < MaxEvents
        /\ m_paused' = IF key = "SPACE" THEN ~m_paused ELSE m_paused
        /\ m_g' = IF key = "TAB" THEN [m_g EXCEPT !.show_trail = ~@] ELSE m_g
        /\ IF key = "ESCAPE"
           THEN m_t' = 0 /\ m_asteroids' \in Modular_generate_asteroids(m_g)
           ELSE UNCHANGED <<m_t, m_asteroids>>
        /\ m_events' = m_events + 1
        /\ m_tick' = <<>>
        /\ UNCHANGED <<m_planets, m_sliders, m_frames, fvars, gvars, cvars>>

\* The physics update of one frame (lines 307-315).  m_tick records what the
\* update began with and the accelerations its two loops computed.
ModularFrame ==
    /\ m_frames < MaxFrames
    /\ m_frames' = m_frames + 1
    /\ IF ~m_paused
       THEN \E ra \in {AsteroidLoop(m_planets, m_asteroids, m_g, m_t, Len(m_asteroids))} :
            \E rp \in {PlanetLoop(m_planets, ra.A, m_g, m_t, Len(m_planets))} :
                /\ m_asteroids' = ra.A
                /\ m_planets' = rp.P
                /\ m_t' = m_t + m_g.dt
                /\ m_tick' = [c |-> m_g, t |-> m_t, planets |-> m_planets,
                              asteroids |-> m_asteroids, accA |-> ra.acc, accP |-> rp.acc]
       ELSE m_tick' = <<>> /\ UNCHANGED <<m_asteroids, m_planets, m_t>>
    /\ UNCHANGED <<m_g, m_paused, m_sliders, m_events, fvars, gvars, cvars>>

ModularNext == ModularSliderChange \/ ModularKeyDown \/ ModularFrame

SpecModular == ModularInit /\ [][ModularNext]_vars

(***************************************************************************)
(* The interactive variants together: a behaviour is a run of either the   *)
(* standalone game or the modular game.  The program that was not started  *)
(* takes no step.                                                          *)
(***************************************************************************)
GameRunning == g_sliders # <<>>

ModularRunning == m_sliders # <<>>

InteractiveInit == GameInit \/ ModularInit

InteractiveNext == (GameRunning /\ GameNext) \/ (ModularRunning /\ ModularNext)

SpecInteractive == InteractiveInit /\ [][InteractiveNext]_vars

(***************************************************************************)
(* The interactive variants under the events that set the step size only   *)
(* (the A and W keys of the standalone game, the dt slider of the modular  *)
(* game), explored over longer sequences of events.                        *)
(***************************************************************************)
\* Bound: the number of step-size events explored (enough presses of W to
\* bring dt from its initial value down to its floor and beyond).
MaxSpeedEvents == 6

SpeedKeys == {"a", "w"}

\* sliders[13], "dt (days/frame)"
DtSlider == 14

GameSpeedKeyDown == GameKeyDownOf(SpeedKeys, MaxSpeedEvents)

ModularDtSliderChange == ModularSliderChangeOf({DtSlider}, MaxSpeedEvents)

SpeedNext ==
    \/ GameRunning /\ (GameSpeedKeyDown \/ GameFrame)
    \/ ModularRunning /\ (ModularDtSliderChange \/ ModularFrame)

SpecSpeed == InteractiveInit /\ [][SpeedNext]_vars

(***************************************************************************)
(* new.py: the RK4 Monte Carlo script.  Lengths are scaled so that the     *)
(* collision radius (Earth's radius, 6371 km) is 2 grid units and the      *)
(* asteroid moves more than that per step, as it does in the source        *)
(* (25 km/s * 3600 s against 6371 km); the nominal state and the offsets   *)
(* explored put some trials near the Earth.                                *)
(***************************************************************************)
\* Bounds: the number of trials (500 in the source) and of steps per trial
\* (8760 in the source).
MaxTrials == 2

MaxSteps == 3

G_new == 1

M_sun == 16

M_earth == 2

M_jupiter == 4

r_sun == Vec(0, 0)

r_earth == Vec(6, 0)

r_jupiter == Vec(30, 0)

r_ast == Vec(7, -8)

v_ast == Vec(-1, 4)

n_trials == MaxTrials

dt_new == 1

t_end == MaxSteps * dt_new

\* 6371 in `np.linalg.norm(pos - r_earth) < 6371`
EARTH_RADIUS == 2

\* The configurations of pos_uncertainty explored (1e3 km in the source, one
\* grid unit here; 0 switches the perturbation off).
Uncertainties == {0, 1}

\* The values of np.random.randn(2) explored.
Offsets == {Vec(0, 0), Vec(0, 4), Vec(-1, 10), Vec(-1, 9), Vec(-1, 8), Vec(3, 3)}

\* The module's globals after lines 5-22 and 57-60.
McGlobals ==
    [M_sun |-> M_sun, M_earth |-> M_earth, M_jupiter |-> M_jupiter,
     r_sun |-> r_sun, r_earth |-> r_earth, r_jupiter |-> r_jupiter,
     r_ast |-> r_ast, v_ast |-> v_ast, n_trials |-> n_trials,
     dt |-> dt_new, t_end |-> t_end]

\* Other settings of the globals: a zero and a negative dt, a negative mass,
\* a zero and a negative number of trials.
McConfigs ==
    {McGlobals,
     [McGlobals EXCEPT !.dt = 0],
     [McGlobals EXCEPT !.dt = 0 - dt_new],
     [McGlobals EXCEPT !.M_earth = 0 - M_earth],
     [McGlobals EXCEPT !.n_trials = 0],
     [McGlobals EXCEPT !.n_trials = 0 - 1]}

\* [(M_sun, r_sun), (M_earth, r_earth), (M_jupiter, r_jupiter)], built from
\* the globals e at every step.
BodiesOf(e) == << <<e.M_sun, e.r_sun>>, <<e.M_earth, e.r_earth>>, <<e.M_jupiter, e.r_jupiter>> >>

\* [(M_sun, r_sun), (M_earth, r_earth), (M_jupiter, r_jupiter)]
Bodies == << <<M_sun, r_sun>>, <<M_earth, r_earth>>, <<M_jupiter, r_jupiter>> >>

\* accel(pos, bodies), over bodies[1..k]: no test for a zero distance.
RECURSIVE accel_upto(_, _, _)
accel_upto(pos, bodies, k) ==
    IF k = 0 THEN Zero2
    ELSE LET m == bodies[k][1]
             r_vec == VSub(bodies[k][2], pos)
             r_mag == Norm(r_vec)
         IN VAdd(accel_upto(pos, bodies, k - 1),
                 DivCube(VScale(G_new * m, r_vec), r_mag))

accel(pos, bodies) == accel_upto(pos, bodies, Len(bodies))

\* 0.5 * a and a / 6
Half(a) == VDivS(a, 2)

Sixth(a) == VDivS(a, 6)

\* A variant of rk4_step whose fourth stage is taken at the half step too.
rk4_stages_halfk4(pos, vel, h, bodies) ==
    LET k1_v == VScale(h, accel(pos, bodies))
        k1_r == VScale(h, vel)
        k2_v == VScale(h, accel(VAdd(pos, Half(k1_r)), bodies))
        k2_r == VScale(h, VAdd(vel, Half(k1_v)))
        k3_v == VScale(h, accel(VAdd(pos, Half(k2_r)), bodies))
        k3_r == VScale(h, VAdd(vel, Half(k2_v)))
        k4_v == VScale(h, accel(VAdd(pos, Half(k3_r)), bodies))
        k4_r == VScale(h, VAdd(vel, Half(k3_v)))
    IN [evals |-> <<pos, VAdd(pos, Half(k1_r)), VAdd(pos, Half(k2_r)), VAdd(pos, Half(k3_r))>>,
        vels |-> <<vel, VAdd(vel, Half(k1_v)), VAdd(vel, Half(k2_v)), VAdd(vel, Half(k3_v))>>,
        pos_new |-> VAdd(pos, Sixth(VAdd(VAdd(k1_r, VScale(2, k2_r)),
                                         VAdd(VScale(2, k3_r), k4_r)))),
        vel_new |-> VAdd(vel, Sixth(VAdd(VAdd(k1_v, VScale(2, k2_v)),
                                         VAdd(VScale(2, k3_v), k4_v)))),
        pos |-> pos, vel |-> vel, bodies |-> bodies]

\* The body of rk4_step (lines 40-53): the positions accel is called at, in
\* order (evals), the velocities of the four stages (vels), the two results,
\* and the arguments as they are after the call (every operation in the body
\* builds a new array).
rk4_stages(pos, vel, h, bodies) ==
    LET k1_v == VScale(h, accel(pos, bodies))
        k1_r == VScale(h, vel)
        k2_v == VScale(h, accel(VAdd(pos, Half(k1_r)), bodies))
        k2_r == VScale(h, VAdd(vel, Half(k1_v)))
        k3_v == VScale(h, accel(VAdd(pos, Half(k2_r)), bodies))
        k3_r == VScale(h, VAdd(vel, Half(k2_v)))
        k4_v == VScale(h, accel(VAdd(pos, k3_r), bodies))
        k4_r == VScale(h, VAdd(vel, k3_v))
    IN [evals |-> <<pos, VAdd(pos, Half(k1_r)), VAdd(pos, Half(k2_r)), VAdd(pos, k3_r)>>,
        vels |-> <<vel, VAdd(vel, Half(k1_v)), VAdd(vel, Half(k2_v)), VAdd(vel, k3_v)>>,
        pos_new |-> VAdd(pos, Sixth(VAdd(VAdd(k1_r, VScale(2, k2_r)),
                                         VAdd(VScale(2, k3_r), k4_r)))),
        vel_new |-> VAdd(vel, Sixth(VAdd(VAdd(k1_v, VScale(2, k2_v)),
                                         VAdd(VScale(2, k3_v), k4_v)))),
        pos |-> pos, vel |-> vel, bodies |-> bodies]

\* rk4_step(pos, vel, dt, bodies): <<pos_new, vel_new>>
rk4_step(pos, vel, h, bodies) ==
    <<rk4_stages(pos, vel, h, bodies).pos_new, rk4_stages(pos, vel, h, bodies).vel_new>>

\* The record of one call of rk4_step: its arguments and what it did.
Rk4Call(pos, vel, h, bodies) ==
    [args |-> [pos |-> pos, vel |-> vel, dt |-> h, bodies |-> bodies],
     did |-> rk4_stages(pos, vel, h, bodies)]

\* np.linalg.norm(a) < d, exactly (false for nan)
NormLess(a, d) == ~a.nan /\ a.x * a.x + a.y * a.y < d * d

\* np.linalg.norm(pos - r_earth) < 6371
Collides(pos) == NormLess(VSub(pos, r_earth), EARTH_RADIUS)

\* len(range(0, stop, step)) for step # 0
RangeLen(stop, step) ==
    IF step > 0
    THEN IF stop > 0 THEN (stop + step - 1) \div step ELSE 0
    ELSE IF stop < 0 THEN ((0 - stop) + (0 - step) - 1) \div (0 - step) ELSE 0

\* len(range(0, t_end, dt))
NumSteps == (t_end + dt_new - 1) \div dt_new

\* The history of one trial: its random draw, where it started, the position after each step
\* run, and how it ended.
NewTrial(draw, start) ==
    [draw |-> draw, start |-> start, path |-> <<>>, outcome |-> "RUNNING"]

McInit ==
    /\ collision_count = 0
    /\ collision_prob = <<>>
    /\ c_pc = "trial"
    /\ c_trial = 0
    /\ c_step = 0
    /\ c_pos = r_ast
    /\ c_vel = v_ast
    /\ c_log = <<>>
    /\ pos_uncertainty \in Uncertainties
    /\ c_rk4 = <<>>
    /\ c_env = McGlobals
    /\ FnIdle
    /\ GameIdle
    /\ ModularIdle

\* A variant that adds the draw whatever the scale is.
McStartTrial_unscaled ==
    /\ c_pc = "trial"
    /\ c_trial < c_env.n_trials
    /\ \E d \in Offsets :
          /\ c_pos' = VAdd(c_env.r_ast, d)
          /\ c_log' = Append(c_log, NewTrial(d, VAdd(c_env.r_ast, d)))
    /\ c_vel' = c_env.v_ast
    /\ c_trial' = c_trial + 1
    /\ c_step' = 0
    /\ c_pc' = "step"
    /\ UNCHANGED <<collision_count, collision_prob, pos_uncertainty, c_env, c_rk4, fvars, gvars, mvars>>

\* The head of `for _ in range(n_trials)` with a trial left: lines 63-66.
McStartTrial ==
    /\ c_pc = "trial"
    /\ c_trial < c_env.n_trials
    /\ \E d \in Offsets :
          /\ c_pos' = VAdd(c_env.r_ast, VScale(pos_uncertainty, d))
          /\ c_log' = Append(c_log, NewTrial(d, VAdd(c_env.r_ast, VScale(pos_uncertainty, d))))
    /\ c_vel' = c_env.v_ast
    /\ c_trial' = c_trial + 1
    /\ c_step' = 0
    /\ c_pc' = "step"
    /\ UNCHANGED <<collision_count, collision_prob, pos_uncertainty, c_env, c_rk4, fvars, gvars, mvars>>

\* A variant whose inner loop does not advance.
McStep_nocount ==
    /\ c_pc = "step"
    /\ c_env.dt # 0
    /\ c_step < RangeLen(c_env.t_end, c_env.dt)
    /\ LET s == rk4_step(c_pos, c_vel, c_env.dt, BodiesOf(c_env))
           hit == NormLess(VSub(s[1], c_env.r_earth), EARTH_RADIUS)
       IN /\ c_pos' = s[1]
          /\ c_vel' = s[2]
          /\ c_rk4' = Rk4Call(c_pos, c_vel, c_env.dt, BodiesOf(c_env))
          /\ collision_count' = IF hit THEN collision_count + 1 ELSE collision_count
          /\ c_pc' = IF hit THEN "trial" ELSE "step"
          /\ c_log' = [c_log EXCEPT ![c_trial].path = Append(@, s[1]),
                                    ![c_trial].outcome =
                                        IF hit THEN "COLLIDED" ELSE @]
    /\ UNCHANGED <<collision_prob, c_trial, c_step, pos_uncertainty, c_env, fvars, gvars, mvars>>

\* A variant that counts and goes on with the trial (no break).
McStep_nobreak ==
    /\ c_pc = "step"
    /\ c_env.dt # 0
    /\ c_step < RangeLen(c_env.t_end, c_env.dt)
    /\ LET s == rk4_step(c_pos, c_vel, c_env.dt, BodiesOf(c_env))
           hit == NormLess(VSub(s[1], c_env.r_earth), EARTH_RADIUS)
       IN /\ c_pos' = s[1]
          /\ c_vel' = s[2]
          /\ c_rk4' = Rk4Call(c_pos, c_vel, c_env.dt, BodiesOf(c_env))
          /\ collision_count' = IF hit THEN collision_count + 1 ELSE collision_count
          /\ c_step' = c_step + 1
          /\ c_pc' = "step"
          /\ c_log' = [c_log EXCEPT ![c_trial].path = Append(@, s[1]),
                                    ![c_trial].outcome =
                                        IF hit THEN "COLLIDED" ELSE @]
    /\ UNCHANGED <<collision_prob, c_trial, pos_uncertainty, c_env, fvars, gvars, mvars>>

\* A variant that counts every step run, not only the colliding one.
McStep_countall ==
    /\ c_pc = "step"
    /\ c_env.dt # 0
    /\ c_step < RangeLen(c_env.t_end, c_env.dt)
    /\ LET s == rk4_step(c_pos, c_vel, c_env.dt, BodiesOf(c_env))
           hit == NormLess(VSub(s[1], c_env.r_earth), EARTH_RADIUS)
       IN /\ c_pos' = s[1]
          /\ c_vel' = s[2]
          /\ c_rk4' = Rk4Call(c_pos, c_vel, c_env.dt, BodiesOf(c_env))
          /\ collision_count' = collision_count + 1
          /\ c_step' = c_step + 1
          /\ c_pc' = IF hit THEN "trial" ELSE "step"
          /\ c_log' = [c_log EXCEPT ![c_trial].path = Append(@, s[1]),
                                    ![c_trial].outcome =
                                        IF hit THEN "COLLIDED" ELSE @]
    /\ UNCHANGED <<collision_prob, c_trial, pos_uncertainty, c_env, fvars, gvars, mvars>>

\* A variant that updates vel in place: vel is the array v_ast (lines 64-66),
\* so the nominal velocity moves with it.
McStep_inplace ==
    /\ c_pc = "step"
    /\ c_env.dt # 0
    /\ c_step < RangeLen(c_env.t_end, c_env.dt)
    /\ LET s == rk4_step(c_pos, c_vel, c_env.dt, BodiesOf(c_env))
           hit == NormLess(VSub(s[1], c_env.r_earth), EARTH_RADIUS)
       IN /\ c_pos' = s[1]
          /\ c_vel' = s[2]
          /\ c_rk4' = Rk4Call(c_pos, c_vel, c_env.dt, BodiesOf(c_env))
          /\ c_env' = [c_env EXCEPT !.v_ast = s[2]]
          /\ collision_count' = IF hit THEN collision_count + 1 ELSE collision_count
          /\ c_step' = c_step + 1
          /\ c_pc' = IF hit THEN "trial" ELSE "step"
          /\ c_log' = [c_log EXCEPT ![c_trial].path = Append(@, s[1]),
                                    ![c_trial].outcome =
                                        IF hit THEN "COLLIDED" ELSE @]
    /\ UNCHANGED <<collision_prob, c_trial, pos_uncertainty, fvars, gvars, mvars>>

\* One iteration of `for t in range(0, t_end, dt)`: lines 69-75.
McStep ==
    /\ c_pc = "step"
    /\ c_env.dt # 0
    /\ c_step < RangeLen(c_env.t_end, c_env.dt)
    /\ LET s == rk4_step(c_pos, c_vel, c_env.dt, BodiesOf(c_env))
           hit == NormLess(VSub(s[1], c_env.r_earth), EARTH_RADIUS)
       IN /\ c_pos' = s[1]
          /\ c_vel' = s[2]
          /\ c_rk4' = Rk4Call(c_pos, c_vel, c_env.dt, BodiesOf(c_env))
          /\ collision_count' = IF hit THEN collision_count + 1 ELSE collision_count
          /\ c_step' = c_step + 1
          /\ c_pc' = IF hit THEN "trial" ELSE "step"
          /\ c_log' = [c_log EXCEPT ![c_trial].path = Append(@, s[1]),
                                    ![c_trial].outcome =
                                        IF hit THEN "COLLIDED" ELSE @]
    /\ UNCHANGED <<collision_prob, c_trial, pos_uncertainty, c_env, fvars, gvars, mvars>>

\* The inner range is exhausted: the trial ends without a collision.
McTimeExpired ==
    /\ c_pc = "step"
    /\ c_env.dt # 0
    /\ c_step = RangeLen(c_env.t_end, c_env.dt)
    /\ c_pc' = "trial"
    /\ c_log' = [c_log EXCEPT ![c_trial].outcome = "TIME_EXPIRED"]
    /\ UNCHANGED <<collision_count, collision_prob, c_trial, c_step, c_pos, c_vel,
                   pos_uncertainty, c_env, c_rk4, fvars, gvars, mvars>>

\* The outer range is exhausted: collision_prob = collision_count / n_trials
\* (line 77), kept as the pair <<numerator, denominator>>.
McFinish ==
    /\ c_pc = "trial"
    /\ ~(c_trial < c_env.n_trials)
    /\ c_env.n_trials # 0
    /\ collision_prob' = <<collision_count, c_env.n_trials>>
    /\ c_pc' = "done"
    /\ UNCHANGED <<collision_count, c_trial, c_step, c_pos, c_vel, c_log,
                   pos_uncertainty, c_env, c_rk4, fvars, gvars, mvars>>

McNext == McStartTrial \/ McStep \/ McTimeExpired \/ McFinish

SpecMC == McInit /\ [][McNext]_vars

\* The script is a sequential program that runs on while it has a next
\* statement.
SpecMCFair == McInit /\ [][McNext]_vars /\ WF_vars(McNext)

\* The script under any of the configurations: the same steps, and the two
\* exceptions Python raises, which end the script.
McInitAny ==
    /\ collision_count = 0
    /\ collision_prob = <<>>
    /\ c_pc = "trial"
    /\ c_trial = 0
    /\ c_step = 0
    /\ c_env \in McConfigs
    /\ c_pos = c_env.r_ast
    /\ c_vel = c_env.v_ast
    /\ c_log = <<>>
    /\ pos_uncertainty \in Uncertainties
    /\ c_rk4 = <<>>
    /\ FnIdle
    /\ GameIdle
    /\ ModularIdle

\* range(0, t_end, dt) with dt = 0 (line 68): ValueError.
McRangeError ==
    /\ c_pc = "step"
    /\ c_env.dt = 0
    /\ c_pc' = "error"
    /\ UNCHANGED <<collision_count, collision_prob, c_trial, c_step, c_pos, c_vel, c_log,
                   pos_uncertainty, c_env, c_rk4, fvars, gvars, mvars>>

\* collision_count / n_trials with n_trials = 0 (line 77): ZeroDivisionError.
McDivideError ==
    /\ c_pc = "trial"
    /\ ~(c_trial < c_env.n_trials)
    /\ c_env.n_trials = 0
    /\ c_pc' = "error"
    /\ UNCHANGED <<collision_count, collision_prob, c_trial, c_step, c_pos, c_vel, c_log,
                   pos_uncertainty, c_env, c_rk4, fvars, gvars, mvars>>

McNextAny == McNext \/ McRangeError \/ McDivideError

SpecMCAny == McInitAny /\ [][McNextAny]_vars

(***************************************************************************)
(* Properties of the physics functions (checked under SpecFn).             *)
(***************************************************************************)
\* The recorded call's target, before the call.
FnIsAsteroid == f_out.self > Len(f_out.P)

FnTarget == f_out.A[f_out.self - Len(f_out.P)]

FnLaserSet ==
    ~IsNone(f_laser.thrust) /\ ~IsNone(f_laser.start) /\ ~IsNone(f_laser.duration)

\* laser_start <= t < laser_start + laser_duration, written out.
FnInWindow ==
    /\ FnLaserSet
    /\ f_laser.start[1] <= f_t
    /\ f_t < f_laser.start[1] + f_laser.duration[1]

\* The acceleration of the recorded target with no thrust configured.
FnNoThrustAccel ==
    IF f_out.op \in {"asteroid_accel", "GameStep"}
    THEN GameGravity(FnGlobals, FnTarget.pos, f_t)
    ELSE Asteroid_get_acceleration(f_out.P, f_out.A, f_out.self, f_t,
                                   None, None, None).acc

\* C1: the thrust term is added only for laser_start <= t < laser_start +
\* laser_duration (included at t = laser_start, excluded at the end); outside
\* the window the acceleration is the one returned with no thrust configured;
\* a planet never gets a thrust term.
C1_ThrustOnlyInHalfOpenWindow ==
    /\ f_out.op \in {"Asteroid.get_acceleration", "asteroid_accel"} =>
          /\ f_out.thrust => FnInWindow
          /\ ~FnInWindow => f_out.acc = FnNoThrustAccel
          /\ (FnLaserSet /\ f_t = f_laser.start[1] /\ f_laser.duration[1] > 0
                 /\ FnTarget.vel # Zero2 /\ ~FnTarget.vel.nan) => f_out.thrust
    /\ f_out.op \in {"Planet.get_acceleration", "Planet.update"} => ~f_out.thrust

\* A call at the excluded end of a non-empty window, on a moving asteroid.
C1_Witness ==
    /\ f_out.op = "Asteroid.get_acceleration"
    /\ FnLaserSet
    /\ f_laser.duration[1] > 0
    /\ f_t = f_laser.start[1] + f_laser.duration[1]
    /\ FnTarget.vel # Zero2
    /\ ~f_out.thrust
    /\ ~f_out.acc.nan

\* The position the recorded call reads for source k, and for its target.
FnSourcePos(k) ==
    IF k > Len(f_out.P) THEN f_out.A[k - Len(f_out.P)].pos
    ELSE get_position(f_out.P[k], f_t)

FnMyPos == FnSourcePos(f_out.self)

FnCoincident(k) ==
    ~FnMyPos.nan /\ ~FnSourcePos(k).nan /\ FnSourcePos(k) = FnMyPos

\* The sources that must contribute: every body but the target and the bodies
\* at distance 0 from it.
FnExpectedTerms ==
    {k \in 1 .. NBodies(f_out.P, f_out.A) : k # f_out.self /\ ~FnCoincident(k)}

RECURSIVE FnSumTerms(_)
FnSumTerms(S) ==
    IF S = {} THEN Zero2
    ELSE LET k == CHOOSE j \in S : TRUE
         IN VAdd(GravTerm(BodyMass(f_out.P, f_out.A, k), VSub(FnMyPos, FnSourcePos(k))),
                 FnSumTerms(S \ {k}))

FnAllPositionsDefined ==
    \A k \in 1 .. NBodies(f_out.P, f_out.A) : ~FnSourcePos(k).nan

\* C2: in Planet.get_acceleration and Asteroid.get_acceleration the target and
\* every body at distance 0 from it contribute nothing and cause no division
\* by zero; every other body contributes exactly one term; a planet is read
\* through get_position(t), a free body through pos.
C2_SelfAndCoincidentSkipped ==
    f_out.op \in {"Planet.get_acceleration", "Asteroid.get_acceleration"} =>
        /\ f_out.terms = FnExpectedTerms
        /\ f_out.acc = IF f_out.thrust
                       THEN VAdd(FnSumTerms(FnExpectedTerms),
                                 ThrustTerm(f_laser.thrust[1], FnTarget.vel))
                       ELSE FnSumTerms(FnExpectedTerms)
        /\ FnAllPositionsDefined => ~f_out.acc.nan

\* A call whose target coincides with another body.
C2_Witness ==
    /\ f_out.op = "Asteroid.get_acceleration"
    /\ \E k \in 1 .. NBodies(f_out.P, f_out.A) :
           k # f_out.self /\ FnCoincident(k) /\ k \notin f_out.terms
    /\ f_out.terms # {}
    /\ ~f_out.acc.nan

\* C3: inside the laser window with a velocity of exactly zero, the thrust
\* term is skipped: the evaluation divides nothing by zero and returns
\* exactly the gravitational acceleration (in both Euler variants).
C3_ZeroVelocityThrustSkipped ==
    (/\ f_out.op \in {"Asteroid.get_acceleration", "asteroid_accel"}
     /\ FnInWindow
     /\ FnTarget.vel = Zero2
     /\ ~FnNoThrustAccel.nan)
    => (~f_out.thrust /\ ~f_out.acc.nan /\ f_out.acc = FnNoThrustAccel)

\* C4: one explicit-Euler step sets v' = v + a*dt with a evaluated on the
\* state before the step, then r' = r + v'*dt with the updated velocity.
C4_VelocityFirstThenPosition ==
    f_out.op \in {"Asteroid.update", "GameStep"} =>
        LET pre == FnTarget
            post == f_A[f_out.self - Len(f_P)]
        IN /\ post.vel = VAdd(pre.vel, VScale(f_out.dt, f_out.acc))
           /\ post.pos = VAdd(pre.pos, VScale(f_out.dt, post.vel))

\* A step that changed the velocity, so that v' and v differ.
C4_Witness ==
    /\ f_out.op = "Asteroid.update"
    /\ ~f_out.acc.nan
    /\ f_out.acc # Zero2
    /\ f_A[f_out.self - Len(f_P)].vel # FnTarget.vel
    /\ f_A[f_out.self - Len(f_P)].pos
          = VAdd(FnTarget.pos, VScale(f_out.dt, f_A[f_out.self - Len(f_P)].vel))

\* The Sun is kinematically fixed: position and velocity (0,0) at every time,
\* whatever its orbit fields, and no call changes its fields.
SunFixed ==
    /\ \A t \in Times :
          get_position(f_P[1], t) = Zero2 /\ get_velocity_vector(f_P[1], t) = Zero2
    /\ f_out.op # "none" => f_P[1] = f_out.P[1]

\* C5 as stated: the Sun is fixed, and its mass contributes to the
\* acceleration of every other body.
C5_SunFixedAndAlwaysContributes ==
    /\ SunFixed
    /\ (f_out.op \in {"Planet.get_acceleration", "Asteroid.get_acceleration"}
         /\ f_out.self # 1) => 1 \in f_out.terms

\* C5 as amended: the Sun is fixed, and its mass contributes to the
\* acceleration of every other body that is not exactly at the Sun's position.
C5_SunFixedAndContributesUnlessCoincident ==
    /\ SunFixed
    /\ (f_out.op \in {"Planet.get_acceleration", "Asteroid.get_acceleration"}
         /\ f_out.self # 1) => (1 \in f_out.terms <=> ~FnCoincident(1))

\* The Sun, built with non-zero orbit fields and pulled by the other bodies,
\* after its own update call.
C5_Witness ==
    /\ f_out.op = "Planet.update"
    /\ f_out.self = 1
    /\ f_P[1].orbit_radius # 0
    /\ f_P[1].orbital_velocity # 0
    /\ f_out.acc # Zero2

(***************************************************************************)
(* Properties of the standalone game's loop (checked under SpecGame).      *)
(***************************************************************************)
\* C6: every unpaused frame advances every asteroid by one step, appends the
\* post-step position to its trail and then adds dt to t; hence k unpaused
\* frames after an asteroid set was created at time t0, every trail has
\* exactly k entries and t = t0 + the sum of the k step sizes.
C6_TrailCountsFramesSinceCreation ==
    /\ \A i \in 1 .. Len(trajectories) : Len(trajectories[i]) = g_gen.k
    /\ \A i \in 1 .. Len(trajectories) :
          Len(trajectories[i]) > 0 =>
              trajectories[i][Len(trajectories[i])] = g_asteroids[i].pos
    /\ g_t = g_gen.t0 + g_gen.sum

\* C18: whenever the asteroid set is regenerated the previous asteroids'
\* history is discarded with them: right after a regeneration (no step taken
\* by the current set yet) every trail is empty, and later a trail holds no
\* more positions than the current asteroid has visited.
C18_RegenerationDiscardsTrails ==
    \A i \in 1 .. Len(trajectories) :
        /\ g_gen.k = 0 => trajectories[i] = <<>>
        /\ Len(trajectories[i]) <= g_gen.k

\* C15: the trail kept for each asteroid is bounded by a bound that does not
\* depend on how many integration steps are executed; so, whatever the bound,
\* once more steps than that are explored the trail stays shorter than the
\* number of steps explored.
C15_TrailBoundedWhateverTheSteps ==
    \A i \in 1 .. Len(trajectories) : Len(trajectories[i]) < MaxFrames

(***************************************************************************)
(* Properties of the Monte Carlo script (checked under SpecMC).            *)
(***************************************************************************)
\* The squared distance of a position to the Earth, and its comparison with
\* the collision radius (a nan position is at no distance).
Dist2Earth(p) == (p.x - r_earth.x) * (p.x - r_earth.x) + (p.y - r_earth.y) * (p.y - r_earth.y)

BelowRadius(p) == ~p.nan /\ Dist2Earth(p) < EARTH_RADIUS * EARTH_RADIUS

AtRadius(p) == ~p.nan /\ Dist2Earth(p) = EARTH_RADIUS * EARTH_RADIUS

TrialCollided(L) == L.outcome = "COLLIDED"

C7_FirstBelowEndsTrial ==
    \A i \in 1 .. Len(c_log) :
        LET L == c_log[i]
            n == Len(L.path)
        IN /\ \A j \in 1 .. n : BelowRadius(L.path[j]) => j = n
           /\ TrialCollided(L) <=> (n > 0 /\ BelowRadius(L.path[n]))
           /\ (TrialCollided(L) /\ i = c_trial) => c_pc # "step"

C7_CollidedNeverChanges ==
    \A i \in 1 .. Len(c_log) :
        TrialCollided(c_log[i]) => (Len(c_log') >= i /\ c_log'[i] = c_log[i])

\* C7: a trial becomes COLLIDED at the first step after which the asteroid is
\* closer to the Earth than the collision radius, and COLLIDED is terminal:
\* no further step of that trial is run and its outcome never changes.
C7_CollidedAtFirstStepBelowAndTerminal ==
    [](C7_FirstBelowEndsTrial) /\ [][C7_CollidedNeverChanges]_vars

\* A trial that collided at its second step, after which another trial ran
\* and the run finished.
C7_Witness ==
    /\ c_pc = "done"
    /\ TrialCollided(c_log[1])
    /\ Len(c_log[1].path) = 2
    /\ ~BelowRadius(c_log[1].path[1])
    /\ Len(c_log[2].path) > 0

\* C8: collision_count is the number of trials that ended COLLIDED, each
\* counted once, so 0 <= collision_count <= N throughout, and the reported
\* probability is collision_count / N.
C8_CountIsNumberOfCollidedTrials ==
    /\ collision_count = Cardinality({i \in 1 .. Len(c_log) : TrialCollided(c_log[i])})
    /\ 0 <= collision_count
    /\ collision_count <= n_trials
    /\ c_pc = "done" => /\ Len(c_log) = n_trials
                        /\ collision_prob = <<collision_count, n_trials>>
    /\ c_pc # "done" => collision_prob = <<>>

\* A finished run in which one trial collided and another did not.
C8_Witness ==
    /\ c_pc = "done"
    /\ collision_count = 1
    /\ \E i \in 1 .. Len(c_log) : c_log[i].outcome = "TIME_EXPIRED"
    /\ collision_prob = <<1, n_trials>>

\* C9: a trial whose asteroid starts exactly at the collision radius from the
\* Earth is COLLIDED on its first step.
C9_StartAtRadiusCollidesOnFirstStep ==
    \A i \in 1 .. Len(c_log) :
        (AtRadius(c_log[i].start) /\ Len(c_log[i].path) >= 1) =>
            (TrialCollided(c_log[i]) /\ Len(c_log[i].path) = 1)

\* C10: the closest approach is tracked from the initial state on, so a trial
\* that starts already below the collision threshold is recorded as such
\* when it ends.
C10_StartBelowThresholdIsRecorded ==
    \A i \in 1 .. Len(c_log) :
        (BelowRadius(c_log[i].start) /\ c_log[i].outcome # "RUNNING") =>
            TrialCollided(c_log[i])

\* C11: with the perturbation scale at zero (the script perturbs only the
\* position), all trials start from the same state and reach the same
\* outcome, so the reported probability is exactly 0.0 or exactly 1.0.
C11_NoPerturbationSingleOutcome ==
    pos_uncertainty = 0 =>
        /\ \A i \in 1 .. Len(c_log) : c_log[i].start = r_ast
        /\ \A i, j \in 1 .. Len(c_log) :
              (c_log[i].outcome # "RUNNING" /\ c_log[j].outcome # "RUNNING") =>
                  /\ c_log[i].path = c_log[j].path
                  /\ c_log[i].outcome = c_log[j].outcome
        /\ c_pc = "done" => collision_prob \in {<<0, n_trials>>, <<n_trials, n_trials>>}

\* A finished run without perturbation in which every trial collided.
C11_Witness ==
    /\ pos_uncertainty = 0
    /\ c_pc = "done"
    /\ Len(c_log) = n_trials
    /\ \A i \in 1 .. Len(c_log) : TrialCollided(c_log[i])
    /\ collision_prob = <<n_trials, n_trials>>

\* The trial the script runs from a start, computed on its own: the positions
\* after each step, up to and including the first one within the collision
\* radius, at most NumSteps of them.
RECURSIVE TrialPath(_, _, _)
TrialPath(pos, vel, k) ==
    IF k = 0 THEN <<>>
    ELSE LET s == rk4_step(pos, vel, dt_new, Bodies)
         IN IF Collides(s[1]) THEN <<s[1]>>
            ELSE <<s[1]>> \o TrialPath(s[1], s[2], k - 1)

TrialOf(draw) == TrialPath(VAdd(r_ast, VScale(pos_uncertainty, draw)), v_ast, NumSteps)

OutcomeOf(draw) ==
    LET path == TrialOf(draw)
    IN IF Len(path) > 0 /\ Collides(path[Len(path)]) THEN "COLLIDED" ELSE "TIME_EXPIRED"

\* C12: no trial modifies the nominal asteroid state, the bodies' masses or
\* positions, dt or the horizon, so what a trial does depends only on its own
\* draw, and the final count is the number of draws whose trial collides,
\* whatever order the draws come in.
C12_TrialsIndependentOfOrder ==
    /\ c_env = McGlobals
    /\ \A i \in 1 .. Len(c_log) :
          c_log[i].outcome # "RUNNING" =>
              /\ c_log[i].path = TrialOf(c_log[i].draw)
              /\ c_log[i].outcome = OutcomeOf(c_log[i].draw)
    /\ c_pc = "done" =>
          collision_count =
              Cardinality({i \in 1 .. Len(c_log) : OutcomeOf(c_log[i].draw) = "COLLIDED"})

\* A finished run whose second trial collided after a first trial, with
\* another draw, that did not.
C12_Witness ==
    /\ c_pc = "done"
    /\ pos_uncertainty # 0
    /\ c_log[1].outcome = "TIME_EXPIRED"
    /\ c_log[2].outcome = "COLLIDED"
    /\ c_log[1].draw # c_log[2].draw
    /\ collision_count = 1

C16_TrialsBounded ==
    /\ Len(c_log) <= n_trials
    /\ \A i \in 1 .. Len(c_log) :
          /\ Len(c_log[i].path) <= NumSteps
          /\ c_log[i].outcome = "TIME_EXPIRED" =>
                (Len(c_log[i].path) = NumSteps /\ \A j \in 1 .. NumSteps : ~BelowRadius(c_log[i].path[j]))
          /\ c_log[i].outcome = "COLLIDED" => BelowRadius(c_log[i].path[Len(c_log[i].path)])

C16_RunOver ==
    /\ c_pc = "done"
    /\ Len(c_log) = n_trials
    /\ \A i \in 1 .. Len(c_log) : c_log[i].outcome \in {"COLLIDED", "TIME_EXPIRED"}

\* C16 (checked under SpecMCFair): every trial ends, at its first collision
\* or as TIME_EXPIRED after ceil(t_end / dt) steps and never more, and the
\* run ends after exactly n_trials trials.
C16_EveryTrialAndTheRunTerminate ==
    [](C16_TrialsBounded) /\ <>[](C16_RunOver)

\* The run is over, with a trial that took all ceil(t_end / dt) steps and one
\* that ended earlier at a collision.
C16_Witness ==
    /\ C16_RunOver
    /\ \E i \in 1 .. Len(c_log) :
          c_log[i].outcome = "TIME_EXPIRED" /\ Len(c_log[i].path) = NumSteps
    /\ \E i \in 1 .. Len(c_log) :
          c_log[i].outcome = "COLLIDED" /\ Len(c_log[i].path) < NumSteps

\* The four stages as the classical scheme defines them, from the arguments
\* of the recorded call.
Rk4E1 == c_rk4.args.pos

Rk4K1v == VScale(c_rk4.args.dt, accel(Rk4E1, c_rk4.args.bodies))

Rk4K1r == VScale(c_rk4.args.dt, c_rk4.args.vel)

Rk4E2 == VAdd(c_rk4.args.pos, VDivS(Rk4K1r, 2))

Rk4V2 == VAdd(c_rk4.args.vel, VDivS(Rk4K1v, 2))

Rk4K2v == VScale(c_rk4.args.dt, accel(Rk4E2, c_rk4.args.bodies))

Rk4K2r == VScale(c_rk4.args.dt, Rk4V2)

Rk4E3 == VAdd(c_rk4.args.pos, VDivS(Rk4K2r, 2))

Rk4V3 == VAdd(c_rk4.args.vel, VDivS(Rk4K2v, 2))

Rk4K3v == VScale(c_rk4.args.dt, accel(Rk4E3, c_rk4.args.bodies))

Rk4K3r == VScale(c_rk4.args.dt, Rk4V3)

Rk4E4 == VAdd(c_rk4.args.pos, Rk4K3r)

Rk4V4 == VAdd(c_rk4.args.vel, Rk4K3v)

Rk4K4v == VScale(c_rk4.args.dt, accel(Rk4E4, c_rk4.args.bodies))

Rk4K4r == VScale(c_rk4.args.dt, Rk4V4)

Weighted(k1, k2, k3, k4) ==
    VDivS(VAdd(VAdd(k1, VScale(2, k2)), VAdd(VScale(2, k3), k4)), 6)

\* C14: rk4_step evaluates the acceleration exactly four times, at pos,
\* pos + k1_r/2, pos + k2_r/2 and pos + k3_r, with stage velocities vel,
\* vel + k1_v/2, vel + k2_v/2 and vel + k3_v, returns
\* pos + (k1_r + 2 k2_r + 2 k3_r + k4_r)/6 and
\* vel + (k1_v + 2 k2_v + 2 k3_v + k4_v)/6, and leaves pos, vel and bodies
\* as they were.
C14_Rk4FourStages ==
    c_rk4 # <<>> =>
        /\ c_rk4.did.evals = <<Rk4E1, Rk4E2, Rk4E3, Rk4E4>>
        /\ c_rk4.did.vels = <<c_rk4.args.vel, Rk4V2, Rk4V3, Rk4V4>>
        /\ c_rk4.did.pos_new =
              VAdd(c_rk4.args.pos, Weighted(Rk4K1r, Rk4K2r, Rk4K3r, Rk4K4r))
        /\ c_rk4.did.vel_new =
              VAdd(c_rk4.args.vel, Weighted(Rk4K1v, Rk4K2v, Rk4K3v, Rk4K4v))
        /\ c_rk4.did.pos = c_rk4.args.pos
        /\ c_rk4.did.vel = c_rk4.args.vel
        /\ c_rk4.did.bodies = c_rk4.args.bodies
        /\ c_step > 0 => (c_pos = c_rk4.did.pos_new /\ c_vel = c_rk4.did.vel_new)

\* A call near the Earth: the acceleration is not zero at the first stage, the
\* second stage has another velocity and the last two points differ.
C14_Witness ==
    /\ c_rk4 # <<>>
    /\ ~c_rk4.did.pos_new.nan
    /\ Rk4K1v # Zero2
    /\ Rk4E2 # Rk4E1
    /\ Rk4E4 # Rk4E3
    /\ c_rk4.did.vels[2] # c_rk4.args.vel

(***************************************************************************)
(* Properties of the Monte Carlo script under any configuration (checked   *)
(* under SpecMCAny).                                                       *)
(***************************************************************************)
InvalidConfiguration(e) ==
    \/ e.dt <= 0
    \/ e.M_sun < 0 \/ e.M_earth < 0 \/ e.M_jupiter < 0
    \/ e.n_trials <= 0

\* C13: an invalid configuration (dt <= 0, a negative mass, N <= 0) is
\* rejected before the integration loop: no integration step runs and no
\* result is produced for it.
C13_InvalidConfigurationRejected ==
    InvalidConfiguration(c_env) =>
        /\ \A i \in 1 .. Len(c_log) : Len(c_log[i].path) = 0
        /\ collision_prob = <<>>

(***************************************************************************)
(* Properties of both interactive variants (checked under                  *)
(* SpecInteractive).                                                       *)
(***************************************************************************)
\* C19: after any sequence of UI events, at the start of every physics update
\* the number of asteroid states equals NUM_ASTEROIDS (and, in the standalone
\* game, the number of trajectory lists), with NUM_ASTEROIDS between 1 and its
\* maximum; so the update loop never indexes past the end of either list.
C19_AsteroidCountMatches ==
    /\ GameRunning =>
          /\ Len(g_asteroids) = g.NUM_ASTEROIDS
          /\ Len(trajectories) = g.NUM_ASTEROIDS
          /\ 1 <= g.NUM_ASTEROIDS /\ g.NUM_ASTEROIDS <= NUM_MAX
    /\ ModularRunning =>
          /\ Len(m_asteroids) = m_g.NUM_ASTEROIDS
          /\ 1 <= m_g.NUM_ASTEROIDS /\ m_g.NUM_ASTEROIDS <= NUM_MAX

\* C19 witness: in the standalone game the J key has lowered the count below
\* the slider's value, two events were handled and a physics update has run
\* on the new set.
C19_Witness ==
    /\ GameRunning
    /\ g_events = 2 /\ g.NUM_ASTEROIDS = 1 /\ g_sliders[5] = NUM_ASTEROIDS
    /\ g_gen.k > 0
    /\ Len(trajectories) = 1 /\ Len(trajectories[1]) = g_gen.k

\* C19, the modular game's case: the Num Asteroids slider was dragged to its
\* minimum and a physics update has run on the new set.
C19_WitnessModular ==
    /\ ModularRunning
    /\ m_sliders[5] = 1 /\ m_g.NUM_ASTEROIDS = 1
    /\ m_tick # <<>> /\ Len(m_tick.asteroids) = 1

(***************************************************************************)
(* Properties of the step size (checked under SpecSpeed).                  *)
(***************************************************************************)
\* C20: in the interactive variants the step size dt is strictly positive, at
\* least the floor DT_MIN (0.1), after any sequence of UI events: neither the
\* A/W keys of the standalone game nor the dt slider of the modular game can
\* drive it to zero or below.
C20_StepSizeAtLeastFloor ==
    /\ GameRunning => g.dt >= DT_MIN /\ g.dt > 0
    /\ ModularRunning => m_g.dt >= DT_MIN /\ m_g.dt > 0

\* C20 witness: in the standalone game W was pressed often enough for dt / 1.2
\* to fall below the floor, dt sits at the floor and a physics update has run
\* with it.
C20_Witness ==
    /\ GameRunning
    /\ g_events = MaxSpeedEvents /\ g.dt = DT_MIN /\ Over12(g.dt) < DT_MIN
    /\ g_gen.k > 0 /\ g_gen.sum = DT_MIN

\* C20, the modular game's case: the dt slider was dragged to its minimum and
\* a physics update has run with that step.
C20_WitnessModular ==
    /\ ModularRunning
    /\ m_sliders[DtSlider] = DT_MIN /\ m_g.dt = DT_MIN
    /\ m_tick # <<>> /\ m_tick.c.dt = DT_MIN

(***************************************************************************)
(* Properties of the modular game's loop (checked under SpecModular).      *)
(***************************************************************************)
\* The accelerations a physics update would use if every body were advanced
\* from the bodies as they were when the update began.
AccelFromTickStart(tick) ==
    [accA |-> [k \in 1 .. Len(tick.asteroids) |->
                  Asteroid_get_acceleration(tick.planets, tick.asteroids,
                                            Len(tick.planets) + k, tick.t,
                                            Some(tick.c.laser_thrust),
                                            Some(tick.c.laser_start_time),
                                            Some(tick.c.laser_duration)).acc],
     accP |-> [k \in 1 .. Len(tick.planets) |->
                  Planet_get_acceleration(tick.planets, tick.asteroids, k, tick.t).acc]]

\* The planets a physics update advances (the Sun's update returns before it
\* uses the acceleration).
AdvancedPlanets(tick) ==
    {k \in 1 .. Len(tick.planets) : tick.planets[k].name # "Sun"}

\* C17, the asteroids' half: the acceleration used to advance asteroid j is
\* the one computed from the bodies as they were at the start of the tick.
C17_AsteroidForcesFromTickStart ==
    m_tick # <<>> => m_tick.accA = AccelFromTickStart(m_tick).accA

\* C17, the planets' half: the acceleration used to advance a planet is the
\* one computed from the bodies as they were at the start of the tick.
C17_PlanetForcesFromTickStart ==
    m_tick # <<>> =>
        \A k \in AdvancedPlanets(m_tick) :
            m_tick.accP[k] = AccelFromTickStart(m_tick).accP[k]

\* C17: within one tick the acceleration used for every body is the one
\* computed from the state all bodies had at the start of the tick: neither an
\* asteroid's nor a planet's acceleration depends on a position already
\* advanced in that tick.
C17_ForcesFromTickStart ==
    C17_AsteroidForcesFromTickStart /\ C17_PlanetForcesFromTickStart

(***************************************************************************)
(* Properties of single frames and events of both interactive variants     *)
(* (checked under SpecInteractive).                                        *)
(***************************************************************************)
\* The simulation state of the standalone game: the time, the asteroids'
\* positions and velocities, their trails, and the parameters the planets'
\* positions are computed from.
GameSimState == <<g_t, g_asteroids, trajectories, g>>

\* The simulation state of the modular game: the time, the asteroids (with
\* position, velocity and trail), the planets (with mass, orbit_radius and
\* orbital_velocity) and the parameters.
ModularSimState == <<m_t, m_asteroids, m_planets, m_g>>

\* A step that is a frame (no event is handled in it).
IsGameFrame == g_frames' # g_frames

IsModularFrame == m_frames' # m_frames

\* C21: while the simulation is paused, a frame in which no event is received
\* leaves t, every asteroid's position, velocity and trail and every planet's
\* mass, orbit_radius and orbital_velocity unchanged; the event that toggles
\* pause off changes none of them either, so integration resumes from exactly
\* that state.
C21_PausedFrameChangesNothing ==
    [][/\ (g_paused /\ IsGameFrame) => UNCHANGED GameSimState
       /\ (m_paused /\ IsModularFrame) => UNCHANGED ModularSimState
       /\ (g_paused /\ ~g_paused') => UNCHANGED GameSimState
       /\ (m_paused /\ ~m_paused') => UNCHANGED ModularSimState]_vars

\* C21 witness: in the standalone game one frame ran paused and one ran
\* unpaused after SPACE was pressed twice (two frames, one step taken, every
\* parameter as at the start, the pause off).
C21_Witness ==
    /\ GameRunning
    /\ g_events = 2 /\ ~g_paused /\ g = GameGlobals
    /\ g_frames = 2 /\ g_gen.k = 1
    /\ \A i \in 1 .. Len(trajectories) : Len(trajectories[i]) = 1

\* C21, the modular game's case: a frame ran while paused (no physics update
\* recorded for it) after an unpaused one had advanced t.
C21_WitnessModular ==
    /\ ModularRunning
    /\ m_paused /\ m_frames = 2 /\ m_events = 1
    /\ m_tick = <<>> /\ m_t = dt
    /\ \A i \in 1 .. Len(m_asteroids) : Len(m_asteroids[i].trail) = 1

\* The parameters slider i is labelled with, and the quantities derived from
\* them (sliders 1-9 are the same in both games; 10-14 exist in main.py only).
SliderParams(i) ==
    CASE i = 1 -> {"laser_thrust"}
      [] i = 2 -> {"laser_duration"}
      [] i = 3 -> {"ASTEROID_UNC_POS"}
      [] i = 4 -> {"ASTEROID_UNC_VEL"}
      [] i = 5 -> {"NUM_ASTEROIDS"}
      [] i = 6 -> {"EARTH_ORBIT_RADIUS", "EARTH_ORBITAL_VELOCITY"}
      [] i = 7 -> {"JUPITER_ORBIT_RADIUS", "JUPITER_ORBITAL_VELOCITY"}
      [] i = 8 -> {"M_EARTH"}
      [] i = 9 -> {"M_JUPITER"}
      [] i \in {10, 11} -> {"ASTEROID_BASE_POS"}
      [] i \in {12, 13} -> {"ASTEROID_BASE_VEL"}
      [] i = DtSlider -> {"dt"}
      [] OTHER -> {}

\* The sliders whose value a step changes.
GameSlidersMoved == {i \in 1 .. Len(g_sliders) : g_sliders'[i] # g_sliders[i]}

ModularSlidersMoved == {i \in 1 .. Len(m_sliders) : m_sliders'[i] # m_sliders[i]}

\* A step keeps every global parameter outside the set `own`.
KeepsOthers(before, after, own) ==
    \A f \in (DOMAIN before) \ own : after[f] = before[f]

\* In the standalone game, a drag that moves slider i leaves every parameter
\* that slider i is not labelled with as it was.
GameDragChangesOnlyItsParameter ==
    \A i \in GameSlidersMoved : KeepsOthers(g, g', SliderParams(i))

\* In the modular game, a drag that moves slider i leaves every other
\* parameter as it was, and leaves the planets' orbit_radius and
\* orbital_velocity as Planet.update evolved them unless it is the slider of
\* that planet's radius (and their mass unless it is that planet's mass slider).
ModularDragChangesOnlyItsParameter ==
    \A i \in ModularSlidersMoved :
        /\ KeepsOthers(m_g, m_g', SliderParams(i))
        /\ \A k \in 1 .. Len(m_planets) :
              /\ i # k + 4 =>
                    /\ m_planets'[k].orbit_radius = m_planets[k].orbit_radius
                    /\ m_planets'[k].orbital_velocity = m_planets[k].orbital_velocity
              /\ i # k + 6 => m_planets'[k].mass = m_planets[k].mass

\* C22, the standalone game's half: values changed through the keyboard
\* survive the drag of a slider labelled with another parameter.
C22_GameDragKeepsOtherParameters ==
    [][GameDragChangesOnlyItsParameter]_vars

\* C22, the modular game's half: the other parameters and the planets' evolved
\* orbit_radius and orbital_velocity survive the drag of a slider.
C22_ModularDragKeepsOtherParameters ==
    [][ModularDragChangesOnlyItsParameter]_vars

\* C22: handling a drag of one slider changes only the parameter that slider
\* is labelled with (and quantities derived from it); every other parameter
\* keeps its value, including values changed through the keyboard and the
\* planets' orbit_radius and orbital_velocity as evolved by Planet.update.
C22_DragChangesOnlyItsParameter ==
    [][GameDragChangesOnlyItsParameter /\ ModularDragChangesOnlyItsParameter]_vars

====
